---- MODULE Spec2Model ----
(***************************************************************************)
(* The client-side authentication session manager of argus-portal          *)
(* (src/src/hooks/useAuth.tsx, AuthProvider) together with the HTTP client *)
(* it configures (src/src/lib/api-client.ts, apiFetch), modelled as the    *)
(* state machine of ONE execution context (browser tab).                   *)
(*                                                                         *)
(* The identity service, the user, the page-visibility signal and the      *)
(* other tabs are the environment: they choose network outcomes, user      *)
(* events and incoming storage events.  One action is one macrotask of the *)
(* browser event loop (an event handler, a timer callback or the arrival   *)
(* of a network response) together with every promise continuation         *)
(* (microtask) that runs before the next macrotask.                        *)
(*                                                                         *)
(* The component is mounted once (production build: effects run once, in   *)
(* declaration order).  Time is in milliseconds.                           *)
(***************************************************************************)
EXTENDS Integers, Sequences, FiniteSets

\* ---------------------------------------------------------------- constants
REFRESH_LEEWAY_MS == 60000
REFRESH_JITTER_MS == 15000
REFRESH_MIN_DELAY_MS == 5000
VISIBILITY_PAUSE_THRESHOLD_MS == 600000
INACTIVITY_LIMIT_MS == 1800000
INACTIVITY_WARNING_MS == 60000

\* ------------------------------------------------------------------- bounds
\* The identity service issues at most MaxIssued token pairs in one run.
MaxIssued == 1
\* Time stops advancing after MaxTime (ms after the epoch of the model).
MaxTime == 2000000
\* Callers that may be awaiting one refresh renewal at the same time.
MaxWaiters == 3
\* Events of the user, of the other tabs and of the application (requests it
\* starts) that one run takes.
MaxEvents == 2

\* Date.now() when the component is constructed.
T0 == 2 * REFRESH_LEEWAY_MS

\* JS null / undefined.
Null == [null |-> TRUE]
\* An optional number that is absent (refreshExpiresAt?, refreshExpiresIn?).
Absent == 0 - 1

Max(a, b) == IF a >= b THEN a ELSE b

\* Math.random() * 2 - 1 lies in [-1, 1): the jitter lies in
\* [-REFRESH_JITTER_MS, REFRESH_JITTER_MS).
JitterChoices == {0 - REFRESH_JITTER_MS, REFRESH_JITTER_MS - 1}

\* An access token is a JWT: id names the token, ok says that jwtDecode
\* accepts it.  A refresh token is an opaque string.
\* A claim of a token that is set, with its value; a claim that is absent or
\* JSON null is Null.
Claim(v) == [value |-> v]

\* The claims of a token that names its subject and nothing else.
SubjectOnly(i) ==
  [preferred_username |-> [null |-> TRUE], email |-> [null |-> TRUE],
   name |-> [null |-> TRUE], sub |-> Claim(i),
   given_name |-> [null |-> TRUE], family_name |-> [null |-> TRUE]]

Jwt(i, ok, claims) == [id |-> i, ok |-> ok, claims |-> claims]

AccessTok(i, ok) == Jwt(i, ok, SubjectOnly(i))
RefreshTok(i) == [rid |-> i]

VARIABLES
  ctx,          \* the refs, React state, session storage and pending work of the context
  now,          \* Date.now()
  visibility,   \* document.visibilityState
  mounted,      \* the effects of AuthProvider have run
  configured,   \* isAuthConfigured
  issued,       \* token pairs the identity service has issued so far
  events,       \* events of the environment taken so far
  act           \* the handler that ran last

vars == <<ctx, now, visibility, mounted, configured, issued, events, act>>

\* ------------------------------------------------- effects of the last step
\* ctx.fx observes one step: what the handler wrote and sent (broadcasts,
\* navigations, requests), the reason of a logout it finalized, whether it
\* threw to its caller, its input, and three facts of the state it started in.
\* fx.sent lists the calls of fetch of the step, each with its Authorization
\* header; fx.apiReturn is what a call of apiFetch without skipAuth returned.
NoFx ==
  [bcTokens |-> 0, bcLogout |-> 0, nav |-> 0, netRefresh |-> 0, netLogout |-> 0,
   netLogin |-> 0, fetch |-> 0, terminated |-> <<>>, removed |-> FALSE,
   mismatch |-> FALSE, threw |-> FALSE, forceFailed |-> FALSE,
   input |-> [null |-> TRUE], wasAuth |-> FALSE, wasLogout |-> FALSE,
   wasPair |-> [null |-> TRUE], bcRemovals |-> 0, triggered |-> <<>>,
   sent |-> <<>>, apiReturn |-> [null |-> TRUE]]

ResetFx(c) ==
  [c EXCEPT !.fx = [NoFx EXCEPT !.wasAuth = c.isAuthenticatedRef,
                                !.wasLogout = c.logoutInFlightRef,
                                !.wasPair = c.latestTokensRef]]

Input(c, x) == [c EXCEPT !.fx.input = x]

\* ------------------------------------------------------------------ timers
\* window.setTimeout / window.clearTimeout: ctx.timers is the browser's table
\* of pending timers; a ref holds Null or the handle [due |-> t] of the timer
\* it armed last (the handle stays in the ref after the timer has fired).
SetTimeout(c, kind, delay) == [c EXCEPT !.timers = @ \cup {[kind |-> kind, due |-> now + delay]}]
ClearTimeout(c, kind, ref) == [c EXCEPT !.timers = @ \ {[kind |-> kind, due |-> ref.due]}]
Handle(delay) == [due |-> now + delay]

clearRefreshTimer(c) ==
  IF c.refreshTimerRef /= Null
  THEN [ClearTimeout(c, "refresh", c.refreshTimerRef) EXCEPT !.refreshTimerRef = Null]
  ELSE c

clearVisibilityPauseTimer(c) ==
  LET c1 == IF c.visibilityPauseTimerRef /= Null
            THEN [ClearTimeout(c, "pause", c.visibilityPauseTimerRef)
                    EXCEPT !.visibilityPauseTimerRef = Null]
            ELSE c
  IN [c1 EXCEPT !.refreshPausedRef = FALSE]

\* Faulty variant: the handles are forgotten and the timers are left armed.
clearInactivityTimersForgets(c) ==
  [c EXCEPT !.inactivityWarningTimerRef = Null, !.inactivityLogoutTimerRef = Null]

clearInactivityTimers(c) ==
  LET c1 == IF c.inactivityWarningTimerRef /= Null
            THEN [ClearTimeout(c, "warning", c.inactivityWarningTimerRef)
                    EXCEPT !.inactivityWarningTimerRef = Null]
            ELSE c
  IN IF c1.inactivityLogoutTimerRef /= Null
     THEN [ClearTimeout(c1, "logout", c1.inactivityLogoutTimerRef)
             EXCEPT !.inactivityLogoutTimerRef = Null]
     ELSE c1

\* ----------------------------------------------------------------- storage
\* sessionStorage[SESSION_STORAGE_KEY]: Null (no item), Garbage (an item that is
\* not JSON) or the parsed JSON object.  JSON.stringify drops a property whose
\* value is undefined, so an absent refreshExpiresAt is absent after a round trip.
Garbage == [garbage |-> TRUE]

storeTokens(c, tokens) == [c EXCEPT !.sessionStorage = tokens]

\* Faulty variant: the session record is left in place.
removeStoredTokensKeeps(c) == [c EXCEPT !.fx.removed = TRUE]

removeStoredTokens(c) == [c EXCEPT !.sessionStorage = Null, !.fx.removed = TRUE]

\* localStorage[STORAGE_BROADCAST_KEY] is c.localStorage.  setItem then
\* removeItem: the other contexts get one storage event with the message and
\* one with newValue null.  The pair of a tokens message is the pair just
\* recorded as the latest.
BroadcastPayload(c, type) ==
  IF type = "tokens"
  THEN [type |-> type, sourceId |-> c.sessionIdRef, tokens |-> c.latestTokensRef]
  ELSE [type |-> type, sourceId |-> c.sessionIdRef]

\* Faulty variant: the message is left under the shared key.
broadcastSessionLeavesKey(c, type) ==
  LET written == [c EXCEPT !.localStorage = BroadcastPayload(c, type)]
  IN IF type = "tokens" THEN [written EXCEPT !.fx.bcTokens = @ + 1]
     ELSE [written EXCEPT !.fx.bcLogout = @ + 1]

broadcastSession(c, type) ==
  LET written == [c EXCEPT !.localStorage = BroadcastPayload(c, type)]
      removed == [written EXCEPT !.localStorage = Null, !.fx.bcRemovals = @ + 1]
  IN IF type = "tokens" THEN [removed EXCEPT !.fx.bcTokens = @ + 1]
     ELSE [removed EXCEPT !.fx.bcLogout = @ + 1]

\* ------------------------------------------------- api client: the header
\* The token getter handed to configureApiClient.  The string
\* `${type} ${token}` is the pair of its two parts.
\* Faulty variant: the scheme is always Bearer.
getAccessTokenAlwaysBearer(c) ==
  IF c.accessTokenRef = Null THEN Null
  ELSE [type |-> "Bearer", token |-> c.accessTokenRef]

getAccessToken(c) ==
  IF c.accessTokenRef = Null THEN Null
  ELSE [type |-> c.tokenTypeRef, token |-> c.accessTokenRef]

\* applyAuthorization of apiFetch: the Authorization header of the request,
\* Null when it has none.  No caller puts one in init.headers.
applyAuthorization(c, skipAuth) ==
  IF skipAuth THEN Null ELSE getAccessToken(c)

\* `await fetch(resolvedInput, requestInit)` of apiFetch for the call `call`.
Fetch(c, call, skipAuth) ==
  [c EXCEPT !.fx.fetch = @ + 1,
            !.fx.sent = Append(@, [call |-> call, auth |-> applyAuthorization(c, skipAuth)])]

\* ------------------------------------------------------------------ logout
LoggedOutState ==
  [isLoading |-> FALSE, isReady |-> TRUE, isAuthenticated |-> FALSE,
   profile |-> Null, token |-> Null]

\* Faulty variant: the refresh token stays in memory.
finalizeLogoutKeepsRefreshToken(c, redirect, broadcast) ==
  LET c1 == clearVisibilityPauseTimer(clearInactivityTimers(clearRefreshTimer(c)))
      c2 == [c1 EXCEPT !.showInactivityWarning = FALSE,
                       !.warningRaised = FALSE,
                       !.accessTokenRef = Null,
                       !.tokenTypeRef = "Bearer",
                       !.latestTokensRef = Null,
                       !.isAuthenticatedRef = FALSE]
      c3 == [removeStoredTokens(c2) EXCEPT !.state = LoggedOutState]
      c4 == IF broadcast THEN broadcastSession(c3, "logout") ELSE c3
  IN IF redirect THEN [c4 EXCEPT !.fx.nav = @ + 1] ELSE c4

\* Faulty variant: the inactivity timers and the pause state are left as they are.
finalizeLogoutLeavesTimers(c, redirect, broadcast) ==
  LET c1 == clearRefreshTimer(c)
      c2 == [c1 EXCEPT !.showInactivityWarning = FALSE,
                       !.warningRaised = FALSE,
                       !.accessTokenRef = Null,
                       !.refreshTokenRef = Null,
                       !.tokenTypeRef = "Bearer",
                       !.latestTokensRef = Null,
                       !.isAuthenticatedRef = FALSE]
      c3 == [removeStoredTokens(c2) EXCEPT !.state = LoggedOutState]
      c4 == IF broadcast THEN broadcastSession(c3, "logout") ELSE c3
  IN IF redirect THEN [c4 EXCEPT !.fx.nav = @ + 1] ELSE c4

finalizeLogout(c, redirect, broadcast) ==
  LET c1 == clearVisibilityPauseTimer(clearInactivityTimers(clearRefreshTimer(c)))
      c2 == [c1 EXCEPT !.showInactivityWarning = FALSE,
                       !.warningRaised = FALSE,
                       !.accessTokenRef = Null,
                       !.refreshTokenRef = Null,
                       !.tokenTypeRef = "Bearer",
                       !.latestTokensRef = Null,
                       !.isAuthenticatedRef = FALSE]
      c3 == [removeStoredTokens(c2) EXCEPT !.state = LoggedOutState]
      c4 == IF broadcast THEN broadcastSession(c3, "logout") ELSE c3
  IN IF redirect THEN [c4 EXCEPT !.fx.nav = @ + 1] ELSE c4

LogoutOptions(redirect, broadcast, callBackend, reason) ==
  [redirect |-> redirect, broadcast |-> broadcast, callBackend |-> callBackend,
   reason |-> reason]

\* Faulty variant: logoutInFlightRef is not consulted.
performLogoutNoDedup(c, opts) ==
  IF opts.callBackend /\ c.refreshTokenRef /= Null
  THEN [Fetch(c, "logout", TRUE)
          EXCEPT !.logoutInFlightRef = TRUE,
                 !.logoutReq = [rt |-> c.refreshTokenRef, opts |-> opts],
                 !.fx.netLogout = @ + 1,
                 !.fx.triggered = Append(@, opts.reason)]
  ELSE [finalizeLogout(c, opts.redirect, opts.broadcast)
          EXCEPT !.logoutInFlightRef = c.logoutReq /= Null,
                 !.fx.terminated = Append(@, opts.reason),
                 !.fx.triggered = Append(@, opts.reason)]

\* performLogout up to its first suspension.  logoutInFlightRef holds a promise
\* (TRUE) from here until the continuation after `await task` clears it;
\* fx.triggered lists the reasons of the calls of the step;
\* logoutReq is the pending /api/auth/logout call, Null when the task finished
\* without one (the continuation is then run by Settle).  logoutJoined: a later
\* call is suspended at `await logoutInFlightRef.current` and resumes after
\* the task.
performLogout(c, opts) ==
  IF c.logoutInFlightRef
  THEN [c EXCEPT !.logoutJoined = TRUE, !.fx.triggered = Append(@, opts.reason)]
  ELSE IF opts.callBackend /\ c.refreshTokenRef /= Null
       THEN [Fetch(c, "logout", TRUE)
               EXCEPT !.logoutInFlightRef = TRUE,
                      !.logoutReq = [rt |-> c.refreshTokenRef, opts |-> opts],
                      !.fx.netLogout = @ + 1,
                      !.fx.triggered = Append(@, opts.reason)]
       ELSE [finalizeLogout(c, opts.redirect, opts.broadcast)
               EXCEPT !.logoutInFlightRef = TRUE,
                      !.fx.terminated = Append(@, opts.reason),
                      !.fx.triggered = Append(@, opts.reason)]

\* The `finally` of performLogout for a task that finished without a network call.
Settle(c) ==
  IF c.logoutInFlightRef /\ c.logoutReq = Null
  THEN [c EXCEPT !.logoutInFlightRef = FALSE, !.logoutJoined = FALSE]
  ELSE c

\* -------------------------------------------------------------- inactivity
InactivityLogout == LogoutOptions(TRUE, TRUE, TRUE, "inactivity-timeout")

\* Faulty variant: the timers run from the instant of the call, whatever the
\* last activity, and the warning is not timed.
scheduleInactivityTimersFromNow(c) ==
  LET c1 == clearInactivityTimers(c)
  IN IF ~c1.isAuthenticatedRef THEN c1
     ELSE [SetTimeout(SetTimeout(c1, "warning", INACTIVITY_WARNING_MS),
                      "logout", INACTIVITY_LIMIT_MS)
             EXCEPT !.inactivityWarningTimerRef = Handle(INACTIVITY_WARNING_MS),
                    !.inactivityLogoutTimerRef = Handle(INACTIVITY_LIMIT_MS)]

\* Faulty variant: the forced logout is timed and the warning is not.
scheduleInactivityTimersNoWarning(c) ==
  LET c1 == clearInactivityTimers(c)
      remaining == INACTIVITY_LIMIT_MS - (now - c1.lastActivityRef)
  IN IF ~c1.isAuthenticatedRef THEN c1
     ELSE IF remaining <= 0 THEN performLogout(c1, InactivityLogout)
     ELSE [SetTimeout(c1, "logout", remaining)
             EXCEPT !.inactivityLogoutTimerRef = Handle(remaining)]

\* c.warningRaised observes that the warning has been raised since the last
\* recorded activity.
scheduleInactivityTimers(c) ==
  LET c1 == clearInactivityTimers(c)
      elapsed == now - c1.lastActivityRef
      remaining == INACTIVITY_LIMIT_MS - elapsed
  IN IF ~c1.isAuthenticatedRef THEN c1
     ELSE IF remaining <= 0 THEN performLogout(c1, InactivityLogout)
     ELSE IF remaining <= INACTIVITY_WARNING_MS
          THEN [SetTimeout(c1, "logout", remaining)
                  EXCEPT !.showInactivityWarning = TRUE,
                         !.warningRaised = TRUE,
                         !.inactivityLogoutTimerRef = Handle(remaining)]
     ELSE [SetTimeout(SetTimeout(c1, "warning", remaining - INACTIVITY_WARNING_MS),
                      "logout", remaining)
             EXCEPT !.inactivityWarningTimerRef = Handle(remaining - INACTIVITY_WARNING_MS),
                    !.inactivityLogoutTimerRef = Handle(remaining)]

\* Faulty variant: the activity is recorded whether authenticated or not.
recordActivityUnguarded(c) ==
  scheduleInactivityTimers(
    [c EXCEPT !.lastActivityRef = now, !.showInactivityWarning = FALSE,
              !.warningRaised = FALSE])

recordActivity(c) ==
  IF ~c.isAuthenticatedRef THEN c
  ELSE scheduleInactivityTimers(
         [c EXCEPT !.lastActivityRef = now, !.showInactivityWarning = FALSE,
                   !.warningRaised = FALSE])

\* ----------------------------------------------------------------- refresh
RefreshFailed == LogoutOptions(TRUE, TRUE, TRUE, "refresh-failed")

\* The smallest task number not in use by a pending refresh request.
FreshTask(c) == CHOOSE t \in 1..(Cardinality(c.refreshReqs) + 1) :
                  \A r \in c.refreshReqs : r.id /= t

\* Faulty variant: the UI is told that it is signed out while the renewal runs.
refreshTokensBlanksUi(c, kind) ==
  IF c.refreshTokenRef = Null
  THEN [c |-> [c EXCEPT !.refreshReqs =
                  {[r EXCEPT !.earlyFalse = TRUE] : r \in c.refreshReqs}],
        done |-> TRUE, ok |-> FALSE]
  ELSE IF c.refreshInFlightRef /= Null
  THEN [c |-> [c EXCEPT !.waiters = Append(@, [kind |-> kind, task |-> c.refreshInFlightRef.task])],
        done |-> FALSE, ok |-> FALSE]
  ELSE LET t == FreshTask(c) IN
       [c |-> [Fetch(c, "refresh", TRUE)
                 EXCEPT !.refreshReqs = @ \cup {[id |-> t, rt |-> c.refreshTokenRef,
                                                   earlyFalse |-> FALSE]},
                        !.refreshInFlightRef = [task |-> t],
                        !.waiters = Append(@, [kind |-> kind, task |-> t]),
                        !.state.isAuthenticated = FALSE,
                        !.state.token = [null |-> TRUE],
                        !.fx.netRefresh = @ + 1],
        done |-> FALSE, ok |-> FALSE]

\* refreshTokens up to its first suspension, called by `kind` ("force": forceRefresh,
\* "api": apiFetch's refreshHandler).  The result is [c, done, ok]: done says that the
\* promise is already settled (to ok); otherwise the caller awaits a task and is
\* appended to c.waiters.
refreshTokens(c, kind) ==
  IF c.refreshTokenRef = Null
  THEN [c |-> [c EXCEPT !.refreshReqs =
                  {[r EXCEPT !.earlyFalse = TRUE] : r \in c.refreshReqs}],
        done |-> TRUE, ok |-> FALSE]
  ELSE IF c.refreshInFlightRef /= Null
  THEN [c |-> [c EXCEPT !.waiters = Append(@, [kind |-> kind, task |-> c.refreshInFlightRef.task])],
        done |-> FALSE, ok |-> FALSE]
  ELSE LET t == FreshTask(c) IN
       [c |-> [Fetch(c, "refresh", TRUE)
                 EXCEPT !.refreshReqs = @ \cup {[id |-> t, rt |-> c.refreshTokenRef,
                                                   earlyFalse |-> FALSE]},
                        !.refreshInFlightRef = [task |-> t],
                        !.waiters = Append(@, [kind |-> kind, task |-> t]),
                        !.fx.netRefresh = @ + 1],
        done |-> FALSE, ok |-> FALSE]

\* Faulty variant: a failed forced refresh is reported but logs nobody out.
forceRefreshSettledNoLogout(c, success) ==
  IF ~success THEN [c EXCEPT !.fx.forceFailed = TRUE] ELSE c

\* forceRefresh after `await executor()` settled with `success`.
forceRefreshSettled(c, success) ==
  IF ~success
  THEN performLogout([c EXCEPT !.fx.forceFailed = TRUE], RefreshFailed)
  ELSE c

\* forceRefresh up to its first suspension behind a pending renewal.  The initial
\* executor of refreshExecutorRef is () => Promise.resolve(false).
forceRefresh(c) ==
  IF c.refreshExecutorRef = "stub" THEN forceRefreshSettled(c, FALSE)
  ELSE LET r == refreshTokens(c, "force") IN
       IF r.done THEN forceRefreshSettled(r.c, r.ok) ELSE r.c

\* Faulty variant: the pair is recorded and no timer is armed.
scheduleRefreshNoTimer(c, tokens, jitter) == [c EXCEPT !.latestTokensRef = tokens]

\* Faulty variant: the delay runs to the expiry, without the leeway.
scheduleRefreshNoLeeway(c, tokens, jitter) ==
  LET c1 == [c EXCEPT !.latestTokensRef = tokens]
      c2 == clearRefreshTimer(c1)
      timeUntilExpiry == tokens.expiresAt - now
      delay == Max(timeUntilExpiry + jitter, REFRESH_MIN_DELAY_MS)
  IN IF c1.refreshPausedRef THEN c1
     ELSE IF timeUntilExpiry <= REFRESH_LEEWAY_MS
          THEN [SetTimeout(c2, "refresh", 0) EXCEPT !.refreshTimerRef = Handle(0)]
          ELSE [SetTimeout(c2, "refresh", delay) EXCEPT !.refreshTimerRef = Handle(delay)]

scheduleRefresh(c, tokens, jitter) ==
  LET c1 == [c EXCEPT !.latestTokensRef = tokens]
      c2 == clearRefreshTimer(c1)
      timeUntilExpiry == tokens.expiresAt - now
      delay == Max(timeUntilExpiry - REFRESH_LEEWAY_MS + jitter, REFRESH_MIN_DELAY_MS)
  IN IF c1.refreshPausedRef THEN c1
     ELSE IF timeUntilExpiry <= REFRESH_LEEWAY_MS
          THEN [SetTimeout(c2, "refresh", 0) EXCEPT !.refreshTimerRef = Handle(0)]
          ELSE [SetTimeout(c2, "refresh", delay) EXCEPT !.refreshTimerRef = Handle(delay)]

\* ------------------------------------------------------------ apply tokens
\* Faulty variant: the e-mail address is preferred to the user name.
decodeProfileEmailFirst(token) ==
  IF token /= Null /\ token.ok
  THEN LET claims == token.claims IN
       [username |-> IF claims.email /= Null THEN claims.email
                     ELSE IF claims.preferred_username /= Null THEN claims.preferred_username
                     ELSE IF claims.name /= Null THEN claims.name
                     ELSE IF claims.sub /= Null THEN claims.sub
                     ELSE Null,
        email |-> claims.email,
        firstName |-> claims.given_name,
        lastName |-> claims.family_name]
  ELSE Null

\* decodeProfile: Null when jwtDecode throws (a malformed token).  `a ?? b` is
\* b exactly when a is null or undefined, both Null here.
decodeProfile(token) ==
  IF token /= Null /\ token.ok
  THEN LET claims == token.claims IN
       [username |-> IF claims.preferred_username /= Null THEN claims.preferred_username
                     ELSE IF claims.email /= Null THEN claims.email
                     ELSE IF claims.name /= Null THEN claims.name
                     ELSE IF claims.sub /= Null THEN claims.sub
                     ELSE Null,
        email |-> claims.email,
        firstName |-> claims.given_name,
        lastName |-> claims.family_name]
  ELSE Null

\* Faulty variant: a refreshExpiresAt that the new pair lacks is kept from the
\* pair held before.
applyTokensMerging(c, tokens, broadcast, jitter) ==
  LET profile == decodeProfile(tokens.accessToken)
      merged == IF tokens.refreshExpiresAt = Absent /\ c.latestTokensRef /= Null
                THEN [tokens EXCEPT !.refreshExpiresAt = c.latestTokensRef.refreshExpiresAt]
                ELSE tokens
  IN
  IF profile = Null THEN [c EXCEPT !.fx.threw = TRUE]
  ELSE IF tokens.refreshExpiresAt /= Absent /\ tokens.refreshExpiresAt /= 0
          /\ tokens.refreshExpiresAt <= now
  THEN [c EXCEPT !.fx.threw = TRUE]
  ELSE
    LET c1 == [c EXCEPT !.accessTokenRef = merged.accessToken,
                        !.refreshTokenRef = merged.refreshToken,
                        !.tokenTypeRef = IF merged.tokenType = "" THEN "Bearer"
                                         ELSE merged.tokenType,
                        !.latestTokensRef = merged,
                        !.isAuthenticatedRef = TRUE]
        c2 == [storeTokens(c1, merged)
                 EXCEPT !.state = [isLoading |-> FALSE, isReady |-> TRUE,
                                   isAuthenticated |-> TRUE, profile |-> profile,
                                   token |-> merged.accessToken]]
        c3 == IF broadcast THEN broadcastSession(c2, "tokens") ELSE c2
    IN scheduleRefresh(recordActivity(c3), merged, jitter)

\* Faulty variant: the credentials are installed before the pair is validated.
applyTokensValidatesLate(c, tokens, broadcast, jitter) ==
  LET profile == decodeProfile(tokens.accessToken)
      c1 == [c EXCEPT !.accessTokenRef = tokens.accessToken,
                      !.refreshTokenRef = tokens.refreshToken,
                      !.tokenTypeRef = IF tokens.tokenType = "" THEN "Bearer"
                                       ELSE tokens.tokenType,
                      !.latestTokensRef = tokens,
                      !.isAuthenticatedRef = TRUE]
  IN
  IF profile = Null THEN [c1 EXCEPT !.fx.threw = TRUE]
  ELSE IF tokens.refreshExpiresAt /= Absent /\ tokens.refreshExpiresAt /= 0
          /\ tokens.refreshExpiresAt <= now
  THEN [c1 EXCEPT !.fx.threw = TRUE]
  ELSE
    LET c2 == [storeTokens(c1, tokens)
                 EXCEPT !.state = [isLoading |-> FALSE, isReady |-> TRUE,
                                   isAuthenticated |-> TRUE, profile |-> profile,
                                   token |-> tokens.accessToken]]
        c3 == IF broadcast THEN broadcastSession(c2, "tokens") ELSE c2
    IN scheduleRefresh(recordActivity(c3), tokens, jitter)

\* applyTokens: c with fx.threw set when it throws (before any effect).
applyTokens(c, tokens, broadcast, jitter) ==
  LET profile == decodeProfile(tokens.accessToken) IN
  IF profile = Null THEN [c EXCEPT !.fx.threw = TRUE]
  ELSE IF tokens.refreshExpiresAt /= Absent /\ tokens.refreshExpiresAt /= 0
          /\ tokens.refreshExpiresAt <= now
  THEN [c EXCEPT !.fx.threw = TRUE]
  ELSE
    LET c1 == [c EXCEPT !.accessTokenRef = tokens.accessToken,
                        !.refreshTokenRef = tokens.refreshToken,
                        !.tokenTypeRef = IF tokens.tokenType = "" THEN "Bearer"
                                         ELSE tokens.tokenType,
                        !.latestTokensRef = tokens,
                        !.isAuthenticatedRef = TRUE]
        c2 == [storeTokens(c1, tokens)
                 EXCEPT !.state = [isLoading |-> FALSE, isReady |-> TRUE,
                                   isAuthenticated |-> TRUE, profile |-> profile,
                                   token |-> tokens.accessToken]]
        c3 == IF broadcast THEN broadcastSession(c2, "tokens") ELSE c2
    IN scheduleRefresh(recordActivity(c3), tokens, jitter)

\* response.tokenType?.trim() || "Bearer": the token types of a response are
\* "Bearer", "DPoP", " DPoP ", the blank " " and the empty "".
Trim(s) == IF s = " " THEN "" ELSE IF s = " DPoP " THEN "DPoP" ELSE s

normalizeTokens(response) ==
  [tokenType |-> IF Trim(response.tokenType) = "" THEN "Bearer" ELSE Trim(response.tokenType),
   accessToken |-> response.accessToken,
   refreshToken |-> response.refreshToken,
   expiresAt |-> now + response.expiresIn * 1000,
   refreshExpiresAt |-> IF response.refreshExpiresIn /= Absent /\ response.refreshExpiresIn /= 0
                        THEN now + response.refreshExpiresIn * 1000
                        ELSE Absent]

applyResponse(c, response, jitter) ==
  applyTokens(c, normalizeTokens(response), TRUE, jitter)


\* -------------------------------------------------------------- api client
Unauthorized == LogoutOptions(TRUE, TRUE, TRUE, "unauthorized")

\* Faulty variant: a 401 of a request with skipAuth reaches the unauthorized
\* handler.
apiFetchSkipAuthHandles401(c, outcome) ==
  IF outcome = "ok" THEN recordActivity(c)
  ELSE IF outcome = "401" THEN performLogout(c, Unauthorized)
  ELSE c

\* apiFetch of a request with skipAuth after `await fetch` settled: the
\* success handler (recordActivity) runs on an ok response; a 401 is returned
\* like any other response, since `response.status === 401 && !options.skipAuth`
\* is false.
apiFetchSkipAuth(c, outcome) ==
  IF outcome = "ok" THEN recordActivity(c) ELSE c

\* apiFetch of a request without skipAuth, up to `await fetch`.  attempt counts
\* the calls of the refresh handler, fetches the calls of fetch.
apiFetchStart(c) ==
  [Fetch(c, "api", FALSE)
     EXCEPT !.apiReq = [attempt |-> 0, auth |-> applyAuthorization(c, FALSE),
                        awaiting |-> "fetch", fetches |-> 1]]

\* apiFetch returns the response (or throws, when fetch failed in the network).
ApiReturn(c, outcome) ==
  [c EXCEPT !.apiReq = Null,
            !.fx.apiReturn = [outcome |-> outcome, fetches |-> c.apiReq.fetches,
                              attempt |-> c.apiReq.attempt]]

\* Faulty variant: a 401 is answered with a refresh however often it comes.
apiFetchResponseRetriesAgain(c, outcome) ==
  IF outcome = "ok" THEN ApiReturn(recordActivity(c), outcome)
  ELSE IF outcome = "401"
  THEN LET r == refreshTokens([c EXCEPT !.apiReq.attempt = @ + 1], "api") IN
       IF r.done
       THEN ApiReturn(performLogout(r.c, Unauthorized), outcome)
       ELSE [r.c EXCEPT !.apiReq.awaiting = "refresh"]
  ELSE ApiReturn(c, outcome)

\* apiFetch after `await fetch` settled with `outcome`.
apiFetchResponse(c, outcome) ==
  IF outcome = "ok" THEN ApiReturn(recordActivity(c), outcome)
  ELSE IF outcome = "401"
  THEN IF c.apiReq.attempt = 0
       THEN LET r == refreshTokens([c EXCEPT !.apiReq.attempt = @ + 1], "api") IN
            IF r.done
            THEN ApiReturn(performLogout(r.c, Unauthorized), outcome)
            ELSE [r.c EXCEPT !.apiReq.awaiting = "refresh"]
       ELSE ApiReturn(performLogout(c, Unauthorized), outcome)
  ELSE ApiReturn(c, outcome)

\* apiFetch after `await refreshHandler()` settled with `refreshed`.
apiFetchRefreshed(c, refreshed) ==
  IF refreshed
  THEN [Fetch(c, "api", FALSE)
          EXCEPT !.apiReq.auth = applyAuthorization(c, FALSE),
                 !.apiReq.awaiting = "fetch",
                 !.apiReq.fetches = @ + 1]
  ELSE ApiReturn(performLogout(c, Unauthorized), "401")

\* ------------------------------------------------- refresh: the response
\* The body of the task of refreshTokens after `await apiFetch` settled: the
\* new context and the boolean the task resolves to.  apiFetch runs the success
\* handler (recordActivity) on an ok response before it returns.
refreshTask(c, outcome, response, jitter) ==
  LET c1 == apiFetchSkipAuth(c, outcome) IN
  IF outcome = "ok"
  THEN LET a == applyResponse(c1, response, jitter) IN
       IF a.fx.threw THEN [c |-> [a EXCEPT !.fx.threw = FALSE], ok |-> FALSE]
       ELSE [c |-> a, ok |-> TRUE]
  ELSE [c |-> c1, ok |-> FALSE]

\* The continuations of the callers awaiting task t, in the order the promise
\* jobs run: the `finally` of the creator, the forceRefresh callers, then the
\* apiFetch caller.  A forceRefresh caller that starts a logout without a
\* network call has its `finally` run before the continuation of an apiFetch
\* caller that called refreshTokens after it, and after it otherwise.
RECURSIVE forceWaiters(_, _, _)
forceWaiters(c, ws, ok) ==
  IF ws = <<>> THEN c
  ELSE LET c1 == IF Head(ws).kind = "force" THEN forceRefreshSettled(c, ok) ELSE c
       IN forceWaiters(c1, Tail(ws), ok)

ApiAfterForce(ws) ==
  \E i \in 1..Len(ws) : \E k \in 1..Len(ws) :
     i < k /\ ws[i].kind = "force" /\ ws[k].kind = "api"

refreshSettled(c, t, ok) ==
  LET mine == SelectSeq(c.waiters, LAMBDA w : w.task = t)
      others == SelectSeq(c.waiters, LAMBDA w : w.task /= t)
      req == CHOOSE r \in c.refreshReqs : r.id = t
      c1 == [c EXCEPT !.refreshReqs = @ \ {req},
                      !.waiters = others,
                      !.refreshInFlightRef = Null,
                      !.fx.mismatch = req.earlyFalse /\ ok]
      c2 == forceWaiters(c1, mine, ok)
      c3 == IF ApiAfterForce(mine) THEN Settle(c2) ELSE c2
  IN IF \E i \in 1..Len(mine) : mine[i].kind = "api"
     THEN apiFetchRefreshed(c3, ok) ELSE c3

\* ------------------------------------------------------------------- login
\* login up to `await apiFetch`.
loginStart(c) ==
  IF ~configured THEN [c EXCEPT !.fx.threw = TRUE]
  ELSE [Fetch(c, "login", TRUE)
          EXCEPT !.state.isLoading = TRUE, !.loginReq = TRUE,
                 !.fx.netLogin = @ + 1]

\* login after `await apiFetch` settled; fx.threw: the promise of login rejects.
loginResponse(c, outcome, response, jitter) ==
  LET c1 == apiFetchSkipAuth([c EXCEPT !.loginReq = FALSE], outcome) IN
  IF outcome = "ok"
  THEN [applyResponse(c1, response, jitter) EXCEPT !.state.isLoading = FALSE]
  ELSE [c1 EXCEPT !.state.isLoading = FALSE, !.fx.threw = TRUE]

\* -------------------------------------------------------- logout: response
\* The task of performLogout after the /api/auth/logout call settled, and the
\* `finally` that releases logoutInFlightRef.
\* Faulty variant: a failed call leaves the session and the marker in place.
logoutResponseBlocksOnFailure(c, outcome) ==
  LET opts == c.logoutReq.opts IN
  IF outcome \in {"error", "neterr"}
  THEN [c EXCEPT !.logoutReq = Null]
  ELSE [finalizeLogout(apiFetchSkipAuth(c, outcome), opts.redirect, opts.broadcast)
          EXCEPT !.logoutReq = Null, !.logoutInFlightRef = FALSE,
                 !.logoutJoined = FALSE,
                 !.fx.terminated = Append(@, opts.reason)]

logoutResponse(c, outcome) ==
  LET opts == c.logoutReq.opts
      c1 == apiFetchSkipAuth(c, outcome)
  IN [finalizeLogout(c1, opts.redirect, opts.broadcast)
        EXCEPT !.logoutReq = Null, !.logoutInFlightRef = FALSE,
               !.logoutJoined = FALSE,
               !.fx.terminated = Append(@, opts.reason)]

\* -------------------------------------------------------- startup restore
\* The restore effect.  It runs before the effect that installs refreshTokens
\* in refreshExecutorRef, so a forceRefresh it starts calls the initial executor.
IsIncomplete(parsed) ==
  \/ parsed.accessToken = Null
  \/ parsed.refreshToken = Null
  \/ parsed.expiresAt = Absent \/ parsed.expiresAt = 0

\* Faulty variant: a record that is discarded leaves the manager not ready.
restoreSessionInvalidNotReady(c, jitter) ==
  LET raw == c.sessionStorage
      ready(d) == [d EXCEPT !.state.isReady = TRUE]
      failed(d) == removeStoredTokens([d EXCEPT !.fx.threw = FALSE])
  IN IF ~configured THEN ready(c)
     ELSE IF raw = Null THEN ready(c)
     ELSE IF raw = Garbage THEN failed(c)
     ELSE IF IsIncomplete(raw) THEN failed(c)
     ELSE LET a == applyTokens(c, raw, FALSE, jitter) IN
          IF a.fx.threw THEN failed(a)
          ELSE IF raw.expiresAt - now <= REFRESH_LEEWAY_MS THEN forceRefresh(a)
          ELSE a

restoreSession(c, jitter) ==
  LET raw == c.sessionStorage
      ready(d) == [d EXCEPT !.state.isReady = TRUE]
      failed(d) == ready(removeStoredTokens([d EXCEPT !.fx.threw = FALSE]))
  IN IF ~configured THEN ready(c)
     ELSE IF raw = Null THEN ready(c)
     ELSE IF raw = Garbage THEN failed(c)
     ELSE IF IsIncomplete(raw) THEN failed(c)
     ELSE LET a == applyTokens(c, raw, FALSE, jitter) IN
          IF a.fx.threw THEN failed(a)
          ELSE IF raw.expiresAt - now <= REFRESH_LEEWAY_MS THEN forceRefresh(a)
          ELSE a

\* ------------------------------------------------------------ storage event
\* Faulty variant: a remote logout is handled like a local one.
RemoteLogoutAsLocal == LogoutOptions(TRUE, TRUE, TRUE, "remote-logout")

RemoteLogout == LogoutOptions(TRUE, FALSE, FALSE, "remote-logout")

\* Faulty variant: the tokens of another tab are applied with the default options.
handleStorageRebroadcasts(c, message, jitter) ==
  IF message = Null THEN c
  ELSE IF message.sourceId = c.sessionIdRef THEN c
  ELSE IF message.type = "tokens"
       THEN [applyTokens(c, message.tokens, TRUE, jitter) EXCEPT !.fx.threw = FALSE]
  ELSE IF message.type = "logout" THEN performLogout(c, RemoteLogout)
  ELSE c

\* Faulty variant: the sourceId of the message is not compared with sessionIdRef.
handleStorageNoEchoCheck(c, message, jitter) ==
  IF message = Null THEN c
  ELSE IF message.type = "tokens"
       THEN [applyTokens(c, message.tokens, FALSE, jitter) EXCEPT !.fx.threw = FALSE]
  ELSE IF message.type = "logout" THEN performLogout(c, RemoteLogout)
  ELSE c

\* handleStorage for an event on STORAGE_BROADCAST_KEY of localStorage; message
\* is Null for the event of the removal (newValue null).
handleStorage(c, message, jitter) ==
  IF message = Null THEN c
  ELSE IF message.sourceId = c.sessionIdRef THEN c
  ELSE IF message.type = "tokens"
       THEN [applyTokens(c, message.tokens, FALSE, jitter) EXCEPT !.fx.threw = FALSE]
  ELSE IF message.type = "logout" THEN performLogout(c, RemoteLogout)
  ELSE c

\* --------------------------------------------------------------- visibility
handleVisibilityChange(c, state, jitter) ==
  IF ~c.isAuthenticatedRef THEN c
  ELSE IF state = "hidden"
  THEN IF c.visibilityPauseTimerRef = Null
       THEN [SetTimeout(c, "pause", VISIBILITY_PAUSE_THRESHOLD_MS)
               EXCEPT !.visibilityPauseTimerRef = Handle(VISIBILITY_PAUSE_THRESHOLD_MS)]
       ELSE c
  ELSE LET c1 == clearVisibilityPauseTimer(c)
           tokens == c1.latestTokensRef
           c2 == IF c1.refreshPausedRef
                 THEN LET c3 == [c1 EXCEPT !.refreshPausedRef = FALSE] IN
                      IF tokens /= Null
                      THEN IF tokens.expiresAt - now <= REFRESH_LEEWAY_MS
                           THEN forceRefresh(c3)
                           ELSE scheduleRefresh(c3, tokens, jitter)
                      ELSE c3
                 ELSE c1
       IN recordActivity(c2)

\* The callback of the visibility-pause timer.
pauseRefresh(c) == clearRefreshTimer([c EXCEPT !.refreshPausedRef = TRUE])

\* ------------------------------------------------------------------ dialog
\* Faulty variant: the local clock is reset and the identity service is not asked.
handleStayLoggedInLocalOnly(c) ==
  recordActivity([c EXCEPT !.showInactivityWarning = FALSE])

handleStayLoggedIn(c) ==
  forceRefresh(recordActivity([c EXCEPT !.showInactivityWarning = FALSE]))

handleLogoutNow(c) ==
  performLogout([c EXCEPT !.showInactivityWarning = FALSE],
                LogoutOptions(TRUE, TRUE, TRUE, "inactivity-user"))

\* onOpenChange(false) of the dialog.
handleDialogClose(c) == recordActivity([c EXCEPT !.showInactivityWarning = FALSE])

logout(c, redirect) == performLogout(c, LogoutOptions(redirect, TRUE, TRUE, "manual"))


\* ============================================================== environment
\* What the identity service may answer with: a token pair that lives
\* expiresIn seconds.
LongLife == 900
ShortLife == 30
RefreshLife == 1800

AuthApiResponse(i, ok, expiresIn, refreshExpiresIn) ==
  [tokenType |-> "Bearer", accessToken |-> AccessTok(i, ok), refreshToken |-> RefreshTok(i),
   expiresIn |-> expiresIn, refreshExpiresIn |-> refreshExpiresIn]

AuthApiResponses(i) ==
  {AuthApiResponse(i, TRUE, LongLife, RefreshLife),
   AuthApiResponse(i, TRUE, LongLife, Absent),
   AuthApiResponse(i, TRUE, ShortLife, RefreshLife),
   AuthApiResponse(i, FALSE, LongLife, Absent)}

Outcomes == {"ok", "401", "error", "neterr"}

\* A record a previous page load of this tab may have left in sessionStorage.
Stored(at, rt, expiresAt, refreshExpiresAt) ==
  [tokenType |-> "Bearer", accessToken |-> at, refreshToken |-> rt,
   expiresAt |-> expiresAt, refreshExpiresAt |-> refreshExpiresAt]

FarMs == VISIBILITY_PAUSE_THRESHOLD_MS
NearMs == REFRESH_LEEWAY_MS \div 2
DayMs == 48 * INACTIVITY_LIMIT_MS

InitRecords ==
  {Null, Garbage,
   Stored(AccessTok(0, TRUE), RefreshTok(0), T0 + FarMs, T0 + DayMs),
   Stored(AccessTok(0, TRUE), RefreshTok(0), T0 + FarMs, Absent),
   Stored(AccessTok(0, TRUE), RefreshTok(0), T0 + NearMs, T0 + DayMs),
   Stored(AccessTok(0, TRUE), RefreshTok(0), T0 - NearMs, Absent),
   Stored(AccessTok(0, TRUE), RefreshTok(0), T0 + FarMs, T0 - NearMs),
   Stored(AccessTok(0, FALSE), RefreshTok(0), T0 + FarMs, T0 + DayMs),
   Stored(Null, RefreshTok(0), T0 + FarMs, T0 + DayMs),
   Stored(AccessTok(0, TRUE), Null, T0 + FarMs, T0 + DayMs),
   Stored(AccessTok(0, TRUE), RefreshTok(0), Absent, T0 + DayMs)}

\* The token pairs another tab may broadcast at time `now`.
PeerId == 0 - 1
PeerTokens ==
  {Stored(AccessTok(PeerId, TRUE), RefreshTok(PeerId), now + FarMs, Absent),
   Stored(AccessTok(PeerId, TRUE), RefreshTok(PeerId), now + NearMs, Absent),
   Stored(AccessTok(PeerId, FALSE), RefreshTok(PeerId), now + FarMs, Absent),
   Stored(AccessTok(PeerId, TRUE), RefreshTok(PeerId), now + FarMs, now - NearMs),
   [Stored(AccessTok(PeerId, TRUE), RefreshTok(PeerId), now + FarMs, now + DayMs)
      EXCEPT !.tokenType = "DPoP"]}

InitCtx(record, isAuthConfigured) ==
  [sessionIdRef |-> "self",
   accessTokenRef |-> Null,
   refreshTokenRef |-> Null,
   tokenTypeRef |-> "Bearer",
   latestTokensRef |-> Null,
   refreshTimerRef |-> Null,
   refreshPausedRef |-> FALSE,
   refreshInFlightRef |-> Null,
   visibilityPauseTimerRef |-> Null,
   lastActivityRef |-> T0,
   inactivityWarningTimerRef |-> Null,
   inactivityLogoutTimerRef |-> Null,
   logoutInFlightRef |-> FALSE,
   logoutJoined |-> FALSE,
   hiddenSince |-> Null,
   warningRaised |-> FALSE,
   lastTimerRefresh |-> Null,
   refreshExecutorRef |-> "stub",
   isAuthenticatedRef |-> FALSE,
   showInactivityWarning |-> FALSE,
   state |-> [isLoading |-> FALSE, isReady |-> ~isAuthConfigured,
              isAuthenticated |-> FALSE, profile |-> Null, token |-> Null],
   sessionStorage |-> record,
   localStorage |-> Null,
   timers |-> {},
   refreshReqs |-> {},
   waiters |-> <<>>,
   logoutReq |-> Null,
   loginReq |-> FALSE,
   apiReq |-> Null,
   fx |-> NoFx]

\* getKeycloakEnvConfig.  A trimmed value of the build environment is a
\* sequence of parts, <<>> when the variable is unset or blank; a blank value
\* takes its default.  The URL then loses its trailing slashes and a final
\* "/auth"; a URL of which nothing is left makes the configuration null.
OrDefault(raw, default) == IF Len(raw) > 0 THEN raw ELSE default

RECURSIVE StripSlashes(_)
StripSlashes(s) ==
  IF s /= <<>> /\ s[Len(s)] = "/" THEN StripSlashes(SubSeq(s, 1, Len(s) - 1)) ELSE s

getKeycloakEnvConfig(rawUrl, rawRealm, rawClientId) ==
  LET normalizedUrl == OrDefault(rawUrl, <<"https://127.0.0.1:8443">>)
      urlWithoutSlash == StripSlashes(normalizedUrl)
      url == IF urlWithoutSlash /= <<>> /\ urlWithoutSlash[Len(urlWithoutSlash)] = "/auth"
             THEN SubSeq(urlWithoutSlash, 1, Len(urlWithoutSlash) - 1)
             ELSE urlWithoutSlash
      realm == OrDefault(rawRealm, <<"argus">>)
      publicClientId == OrDefault(rawClientId, <<"argus-portal-web">>)
  IN IF url = <<>> \/ realm = <<>> \/ publicClientId = <<>> THEN Null
     ELSE [url |-> url, realm |-> realm, publicClientId |-> publicClientId]

\* VITE_KEYCLOAK_URL, and VITE_KEYCLOAK_REALM or VITE_KEYCLOAK_CLIENT_ID.
UrlChoices ==
  {<<>>, <<"https://id.example">>, <<"https://id.example", "/auth", "/">>,
   <<"/">>, <<"/auth">>}
EnvChoices == {<<>>, <<"set">>}

Init ==
  /\ \E rawUrl \in UrlChoices, rawRealm \in EnvChoices, rawClientId \in EnvChoices :
       configured = (getKeycloakEnvConfig(rawUrl, rawRealm, rawClientId) /= Null)
  /\ \E record \in InitRecords : ctx = InitCtx(record, configured)
  /\ now = T0
  /\ visibility = "visible"
  /\ mounted = FALSE
  /\ issued = 0
  /\ events = 0
  /\ act = "init"

\* The end of a macrotask: the pending `finally` of a logout that needed no
\* network call has run.
Step(c, name) ==
  /\ Len(c.waiters) <= MaxWaiters
  /\ ctx' = Settle(c)
  /\ act' = name

Same == UNCHANGED <<now, visibility, mounted, configured, issued, events>>

\* An event of the environment.
Event ==
  /\ mounted
  /\ events < MaxEvents
  /\ events' = events + 1
  /\ UNCHANGED <<now, visibility, mounted, configured, issued>>

EventVis ==
  /\ mounted
  /\ events < MaxEvents
  /\ events' = events + 1
  /\ UNCHANGED <<now, mounted, configured, issued>>

\* ------------------------------------------------------------------ actions
\* The effects of AuthProvider on mount, in declaration order: restore the
\* session, then install refreshTokens as the refresh executor.
Mount ==
  /\ ~mounted
  /\ \E j \in JitterChoices :
       Step([restoreSession(Input(ResetFx(ctx), ctx.sessionStorage), j)
               EXCEPT !.refreshExecutorRef = "refreshTokens"],
            "Mount")
  /\ mounted' = TRUE
  /\ UNCHANGED <<now, visibility, configured, issued, events>>

\* Another context broadcasts before this one has started: it writes and
\* removes the shared key in one step of its own, and no listener of this
\* context is registered yet.
PeerBroadcast ==
  /\ ~mounted /\ act = "init"
  /\ \E message \in {[type |-> "logout", sourceId |-> "peer"]}
                     \cup {[type |-> "tokens", sourceId |-> "peer", tokens |-> t] :
                             t \in PeerTokens} :
       LET written == [ResetFx(ctx) EXCEPT !.localStorage = message]
       IN ctx' = [written EXCEPT !.localStorage = Null]
  /\ act' = "PeerBroadcast"
  /\ UNCHANGED <<now, visibility, mounted, configured, issued, events>>

Login ==
  /\ mounted /\ ~ctx.loginReq /\ ~ctx.state.isAuthenticated
  /\ Step(loginStart(ResetFx(ctx)), "Login")
  /\ Event

LoginOk ==
  /\ ctx.loginReq /\ issued < MaxIssued
  /\ \E j \in JitterChoices, response \in AuthApiResponses(issued + 1) :
       Step(loginResponse(Input(ResetFx(ctx), response), "ok", response, j), "LoginOk")
  /\ issued' = issued + 1
  /\ UNCHANGED <<now, visibility, mounted, configured, events>>

LoginFail ==
  /\ ctx.loginReq
  /\ \E outcome \in Outcomes \ {"ok"} :
       Step(loginResponse(Input(ResetFx(ctx), outcome), outcome, Null, 0), "LoginFail")
  /\ Same

Logout ==
  /\ mounted
  /\ \E redirect \in BOOLEAN : Step(logout(ResetFx(ctx), redirect), "Logout")
  /\ Event

LogoutResponse ==
  /\ ctx.logoutReq /= Null
  /\ \E outcome \in Outcomes :
       Step(logoutResponse(Input(ResetFx(ctx), outcome), outcome), "LogoutResponse")
  /\ Same

RefreshOk ==
  /\ issued < MaxIssued
  /\ \E r \in ctx.refreshReqs, j \in JitterChoices, response \in AuthApiResponses(issued + 1) :
       LET res == refreshTask(Input(ResetFx(ctx), response), "ok", response, j) IN
       Step(refreshSettled(res.c, r.id, res.ok), "RefreshOk")
  /\ issued' = issued + 1
  /\ UNCHANGED <<now, visibility, mounted, configured, events>>

RefreshFail ==
  /\ \E r \in ctx.refreshReqs, outcome \in Outcomes \ {"ok"} :
       LET res == refreshTask(Input(ResetFx(ctx), outcome), outcome, Null, 0) IN
       Step(refreshSettled(res.c, r.id, res.ok), "RefreshFail")
  /\ Same

\* A click or a keydown.
UserEvent ==
  /\ mounted
  /\ Step(recordActivity(ResetFx(ctx)), "UserEvent")
  /\ Event

\* The page is hidden or shown.  ctx.hiddenSince observes the instant of a hide
\* transition that happened while authenticated, until the page is shown again.
VisibilityChange ==
  /\ mounted
  /\ visibility' = IF visibility = "visible" THEN "hidden" ELSE "visible"
  /\ \E j \in JitterChoices :
       Step([handleVisibilityChange(ResetFx(ctx), visibility', j)
               EXCEPT !.hiddenSince = IF visibility' = "hidden" /\ ctx.isAuthenticatedRef
                                      THEN [at |-> now] ELSE Null],
            "VisibilityChange")
  /\ EventVis

Fire(kind) == \E tm \in ctx.timers : tm.kind = kind /\ tm.due <= now

Fired(c, kind) == [c EXCEPT !.timers = {tm \in @ : ~(tm.kind = kind /\ tm.due <= now)}]

\* The callback of the refresh timer.  ctx.lastTimerRefresh observes the
\* instant of the last refresh request that a refresh timer has sent.
RefreshTimer ==
  /\ Fire("refresh")
  /\ LET c == forceRefresh(Fired(ResetFx(ctx), "refresh"))
     IN Step(IF c.fx.netRefresh > 0 THEN [c EXCEPT !.lastTimerRefresh = [at |-> now]] ELSE c,
             "RefreshTimer")
  /\ Same

PauseTimer ==
  /\ Fire("pause")
  /\ Step(pauseRefresh(Fired(ResetFx(ctx), "pause")), "PauseTimer")
  /\ Same

WarningTimer ==
  /\ Fire("warning")
  /\ Step([Fired(ResetFx(ctx), "warning") EXCEPT !.showInactivityWarning = TRUE,
                                                !.warningRaised = TRUE],
          "WarningTimer")
  /\ Same

LogoutTimer ==
  /\ Fire("logout")
  /\ Step(performLogout(Fired(ResetFx(ctx), "logout"), InactivityLogout), "LogoutTimer")
  /\ Same

StayLoggedIn ==
  /\ ctx.showInactivityWarning
  /\ Step(handleStayLoggedIn(ResetFx(ctx)), "StayLoggedIn")
  /\ Event

LogoutNow ==
  /\ ctx.showInactivityWarning
  /\ Step(handleLogoutNow(ResetFx(ctx)), "LogoutNow")
  /\ Event

DialogClose ==
  /\ ctx.showInactivityWarning
  /\ Step(handleDialogClose(ResetFx(ctx)), "DialogClose")
  /\ Event

\* Storage events of the broadcast key: a message of another tab, a message
\* that carries this context's own id, and the removal of the key.
StorageTokens ==
  /\ mounted
  /\ \E tokens \in PeerTokens, j \in JitterChoices :
       Step(handleStorage(Input(ResetFx(ctx), tokens),
                          [type |-> "tokens", sourceId |-> "peer", tokens |-> tokens], j),
            "StorageTokens")
  /\ Event

StorageLogout ==
  /\ mounted
  /\ Step(handleStorage(ResetFx(ctx), [type |-> "logout", sourceId |-> "peer"], 0),
          "StorageLogout")
  /\ Event

StorageEcho ==
  /\ mounted
  /\ \E message \in {[type |-> "logout", sourceId |-> ctx.sessionIdRef]}
                     \cup {[type |-> "tokens", sourceId |-> ctx.sessionIdRef, tokens |-> t] :
                             t \in PeerTokens} :
       Step(handleStorage(ResetFx(ctx), message, 0), "StorageEcho")
  /\ Event

StorageRemoval ==
  /\ mounted
  /\ Step(handleStorage(ResetFx(ctx), Null, 0), "StorageRemoval")
  /\ Event

ApiRequest ==
  /\ mounted /\ ctx.apiReq = Null
  /\ Step(apiFetchStart(ResetFx(ctx)), "ApiRequest")
  /\ Event

ApiResponse ==
  /\ ctx.apiReq /= Null /\ ctx.apiReq.awaiting = "fetch"
  /\ \E outcome \in Outcomes : Step(apiFetchResponse(ResetFx(ctx), outcome), "ApiResponse")
  /\ Same

\* No refresh or API request is pending.
Idle(c) == c.refreshReqs = {} /\ c.apiReq = Null

\* Time passes up to the next pending timer; a timer that is due fires first.
\* A refresh or API request is answered before the next timer is due; the
\* timers that are armed while a login or logout request is pending may fire
\* before its answer.
Advance ==
  /\ ctx.timers /= {}
  /\ Idle(ctx)
  /\ LET next == CHOOSE d \in {tm.due : tm \in ctx.timers} :
                   \A tm \in ctx.timers : d <= tm.due
     IN /\ next > now
        /\ next <= MaxTime
        /\ now' = next
  /\ Step(ResetFx(ctx), "Advance")
  /\ UNCHANGED <<visibility, mounted, configured, issued, events>>

Next ==
  \/ Mount \/ PeerBroadcast \/ Login \/ LoginOk \/ LoginFail \/ Logout \/ LogoutResponse
  \/ RefreshOk \/ RefreshFail \/ UserEvent \/ VisibilityChange
  \/ RefreshTimer \/ PauseTimer \/ WarningTimer \/ LogoutTimer
  \/ StayLoggedIn \/ LogoutNow \/ DialogClose
  \/ StorageTokens \/ StorageLogout \/ StorageEcho \/ StorageRemoval
  \/ ApiRequest \/ ApiResponse \/ Advance

Spec == Init /\ [][Next]_vars

\* ------------------------------------------- scheduleRefresh on its own
\* The times until expiry of the pairs given to scheduleRefresh: expired,
\* around the leeway, around the point where the minimum delay stops winning,
\* and the lifetimes of the main specification.
TimeUntilExpiryChoices ==
  {0 - NearMs, 0, 1, REFRESH_MIN_DELAY_MS, NearMs,
   REFRESH_LEEWAY_MS - 1, REFRESH_LEEWAY_MS, REFRESH_LEEWAY_MS + 1,
   REFRESH_LEEWAY_MS + REFRESH_MIN_DELAY_MS - REFRESH_JITTER_MS,
   REFRESH_LEEWAY_MS + REFRESH_MIN_DELAY_MS - 1,
   REFRESH_LEEWAY_MS + REFRESH_MIN_DELAY_MS,
   REFRESH_LEEWAY_MS + REFRESH_MIN_DELAY_MS + 1,
   REFRESH_LEEWAY_MS + REFRESH_MIN_DELAY_MS + REFRESH_JITTER_MS,
   REFRESH_LEEWAY_MS + REFRESH_MIN_DELAY_MS + REFRESH_JITTER_MS + 1,
   FarMs, 1000 * LongLife}

\* Values of (Math.random() * 2 - 1) * REFRESH_JITTER_MS.
JitterSamples ==
  JitterChoices \cup {1 - REFRESH_JITTER_MS, 0 - REFRESH_MIN_DELAY_MS, 0 - 1, 0, 1,
                      REFRESH_MIN_DELAY_MS}

\* A mounted provider, with automatic refresh paused or not.
ScheduleInit ==
  /\ configured = TRUE
  /\ \E paused \in BOOLEAN :
       ctx = [InitCtx(Null, TRUE) EXCEPT !.refreshPausedRef = paused]
  /\ now = T0
  /\ visibility = "visible"
  /\ mounted = TRUE
  /\ issued = 0
  /\ events = 0
  /\ act = "init"

\* One call of scheduleRefresh, any previous timer still armed.
ScheduleCall ==
  /\ \E timeUntilExpiry \in TimeUntilExpiryChoices, jitter \in JitterSamples :
       LET tokens == Stored(AccessTok(1, TRUE), RefreshTok(1), now + timeUntilExpiry, Absent)
           c == Input(ResetFx(ctx), [timeUntilExpiry |-> timeUntilExpiry, jitter |-> jitter])
       IN ctx' = scheduleRefresh(c, tokens, jitter)
  /\ act' = "scheduleRefresh"
  /\ Same

ScheduleNext == ScheduleCall

SpecSchedule == ScheduleInit /\ [][ScheduleNext]_vars


\* ------------------------------------------- normalizeTokens on its own
\* The responses of the identity service given to normalizeTokens: lifetimes
\* of zero, one second and those of the main specification, the refresh
\* lifetime also omitted.
ResponseChoices ==
  [tokenType : {"Bearer", "DPoP", " DPoP ", " ", ""},
   accessToken : {AccessTok(1, TRUE)}, refreshToken : {RefreshTok(1)},
   expiresIn : {0, 1, ShortLife, LongLife},
   refreshExpiresIn : {Absent, 0, 1, RefreshLife}]

\* ctx is the last response given to normalizeTokens and the pair it returned.
NormalizeInit ==
  /\ ctx = [response |-> Null, tokens |-> Null]
  /\ now \in {T0, T0 + NearMs}
  /\ visibility = "visible"
  /\ mounted = FALSE
  /\ configured = TRUE
  /\ issued = 0
  /\ events = 0
  /\ act = "init"

NormalizeCall ==
  /\ \E response \in ResponseChoices :
       ctx' = [response |-> response, tokens |-> normalizeTokens(response)]
  /\ act' = "normalizeTokens"
  /\ Same

NormalizeNext == NormalizeCall

SpecNormalize == NormalizeInit /\ [][NormalizeNext]_vars

\* --------------------------------------------- decodeProfile on its own
\* The values a claim of a token may have: absent (or JSON null), the empty
\* string, or a string of its own.
ClaimValues(v) == {Null, Claim(""), Claim(v)}

TokenClaims ==
  [preferred_username : ClaimValues("handle"), email : ClaimValues("mail"),
   name : {Null, Claim("display")}, sub : {Null, Claim("subject")},
   given_name : {Null, Claim("given")}, family_name : {Null, Claim("family")}]

\* ctx is the last token given to decodeProfile and the profile it returned.
ProfileInit ==
  /\ ctx = [token |-> Null, profile |-> Null]
  /\ now = T0
  /\ visibility = "visible"
  /\ mounted = FALSE
  /\ configured = TRUE
  /\ issued = 0
  /\ events = 0
  /\ act = "init"

DecodeCall ==
  /\ \E i \in {0, 1}, ok \in BOOLEAN, claims \in TokenClaims :
       LET token == Jwt(i, ok, claims)
       IN ctx' = [token |-> token, profile |-> decodeProfile(token)]
  /\ act' = "decodeProfile"
  /\ Same

ProfileNext == DecodeCall

SpecProfile == ProfileInit /\ [][ProfileNext]_vars


\* ==================================================================== claims
WithinLeeway(tokens) == tokens.expiresAt - now <= REFRESH_LEEWAY_MS

\* A record that the restore effect accepts: complete, decodable, refresh
\* credential absent or unexpired.
Restorable(record) ==
  /\ record /= Null /\ record /= Garbage
  /\ ~IsIncomplete(record)
  /\ record.accessToken.ok
  /\ (record.refreshExpiresAt = Absent \/ record.refreshExpiresAt > now)

\* C1: within one context at most one refresh request is outstanding, and a
\* refresh call made while a renewal is in flight issues no request and resolves
\* to the result of that renewal (fx.mismatch: a renewal resolved to true after
\* a call made during it had resolved to false).
C1_SingleFlight ==
  /\ Cardinality(ctx.refreshReqs) <= 1
  /\ ~ctx.fx.mismatch

\* C3: on startup, authentication being configured, with a restorable record
\* whose access token is within the leeway, the forced refresh sends a refresh
\* request with the persisted refresh token and no logout is started.
C3_RestoreRefreshes ==
  (act = "Mount" /\ configured /\ Restorable(ctx.fx.input) /\ WithinLeeway(ctx.fx.input))
    => /\ ctx.fx.netRefresh = 1
       /\ \E r \in ctx.refreshReqs : r.rt = ctx.fx.input.refreshToken
       /\ ~ctx.logoutInFlightRef
       /\ ctx.isAuthenticatedRef


\* The session of the context is cleared: no credentials, no record, no timer.
Cleared(c) ==
  /\ c.accessTokenRef = Null /\ c.refreshTokenRef = Null /\ c.latestTokensRef = Null
  /\ c.sessionStorage = Null
  /\ ~c.isAuthenticatedRef /\ ~c.state.isAuthenticated
  /\ c.state.profile = Null /\ c.state.token = Null
  /\ c.timers = {}
  /\ c.refreshTimerRef = Null /\ c.visibilityPauseTimerRef = Null
  /\ c.inactivityWarningTimerRef = Null /\ c.inactivityLogoutTimerRef = Null

\* The step sent no request, wrote no broadcast and did not navigate.
Silent(fx) ==
  /\ fx.fetch = 0 /\ fx.netRefresh = 0 /\ fx.netLogout = 0 /\ fx.netLogin = 0
  /\ fx.bcTokens = 0 /\ fx.bcLogout = 0
  /\ fx.nav = 0

\* The step logged the end of a session with this reason.
Terminated(fx, reason) == \E i \in 1..Len(fx.terminated) : fx.terminated[i] = reason

\* The timer the ref holds is pending.
Pending(c, kind, ref) == ref /= Null /\ [kind |-> kind, due |-> ref.due] \in c.timers

\* The pair is held by the context: refs, record and React state come from it.
Holds(c, tokens) ==
  /\ c.accessTokenRef = tokens.accessToken
  /\ c.refreshTokenRef = tokens.refreshToken
  /\ c.latestTokensRef = tokens
  /\ c.sessionStorage = tokens
  /\ c.isAuthenticatedRef /\ c.state.isAuthenticated /\ c.state.isReady
  /\ c.state.token = tokens.accessToken
  /\ c.state.profile = decodeProfile(tokens.accessToken)
  /\ c.state.profile /= Null

\* C2 as stated: a failed forced refresh starts a logout of its own, with reason
\* refresh-failed, a call to the identity service, broadcast and redirect.
C2_FullLogoutOfItsOwn ==
  ctx.fx.forceFailed => (ctx.logoutReq /= Null /\ ctx.logoutReq.opts = RefreshFailed)

\* C2 as amended: a failed forced refresh sends no further refresh request and
\* leaves a logout in flight or finalized.  When none was in flight, the logout
\* is its own: reason refresh-failed, broadcast and redirect, and a call to the
\* identity service iff a refresh token was still held.  A logout that finalizes
\* with reason refresh-failed leaves the session cleared, with the logout
\* broadcast written and the navigation done.
C2_FailedRefreshLogsOut ==
  /\ ctx.fx.forceFailed =>
       /\ ctx.fx.netRefresh = 0
       /\ ctx.logoutReq /= Null \/ Cleared(ctx)
       /\ (~ctx.fx.wasLogout /\ ctx.logoutReq /= Null) =>
             (ctx.logoutReq.opts = RefreshFailed /\ ctx.fx.netLogout = 1)
       /\ (~ctx.fx.wasLogout /\ ctx.logoutReq = Null) =>
             (Terminated(ctx.fx, "refresh-failed") /\ ctx.fx.netLogout = 0)
  /\ Terminated(ctx.fx, "refresh-failed") =>
       (Cleared(ctx) /\ ctx.fx.bcLogout >= 1 /\ ctx.fx.nav >= 1)

\* C2 witness: a refresh request failed and the forced refresh behind it started
\* the refresh-failed logout.
C2_Witness ==
  /\ act = "RefreshFail" /\ ctx.fx.forceFailed /\ ~ctx.fx.wasLogout
  /\ ctx.logoutReq /= Null /\ ctx.logoutReq.opts = RefreshFailed

\* What C4 promises of the state after startup with the record `tokens`.
RestoredWithoutNetwork(tokens) ==
  /\ Holds(ctx, tokens)
  /\ Pending(ctx, "refresh", ctx.refreshTimerRef)
  /\ ctx.refreshTimerRef.due > now
  /\ Silent(ctx.fx)
  /\ ~ctx.logoutInFlightRef

\* C4 as stated: on every startup with a restorable record whose access token
\* expires more than the leeway from now, the context is Authenticated and ready
\* with the decoded profile and a pending refresh timer; nothing was sent and
\* nothing broadcast.
C4_RestoreOnEveryStartup ==
  (act = "Mount" /\ Restorable(ctx.fx.input) /\ ~WithinLeeway(ctx.fx.input))
    => RestoredWithoutNetwork(ctx.fx.input)

\* C4 as amended: the same, on startup of a build whose authentication is
\* configured; otherwise the record is left alone and the context is ready and
\* Unauthenticated.
C4_RestoreWithoutNetwork ==
  (act = "Mount" /\ Restorable(ctx.fx.input) /\ ~WithinLeeway(ctx.fx.input))
    => IF configured THEN RestoredWithoutNetwork(ctx.fx.input)
       ELSE /\ ctx.sessionStorage = ctx.fx.input
            /\ ctx.state.isReady /\ ~ctx.state.isAuthenticated
            /\ Silent(ctx.fx)

C4_Witness ==
  /\ act = "Mount" /\ configured
  /\ Restorable(ctx.fx.input) /\ ~WithinLeeway(ctx.fx.input)
  /\ ctx.state.isAuthenticated /\ ctx.fx.input.refreshExpiresAt /= Absent

\* What C5 promises of the state after startup with an invalid record.
Discarded ==
  /\ Cleared(ctx)
  /\ ctx.fx.removed
  /\ ctx.state.isReady
  /\ ~ctx.fx.threw
  /\ Silent(ctx.fx)
  /\ ~ctx.logoutInFlightRef

Applicable(tokens) ==
  /\ tokens.accessToken.ok
  /\ (tokens.refreshExpiresAt = Absent \/ tokens.refreshExpiresAt > now)

\* C6: a tokens message of another context is applied (refs, record,
\* Authenticated state, profile) and scheduled (recorded as the latest pair and,
\* unless refresh is paused, a refresh timer pending), and no broadcast is written.
C6_RemoteTokensApplied ==
  act = "StorageTokens"
    => /\ ctx.fx.bcTokens = 0 /\ ctx.fx.bcLogout = 0
       /\ Applicable(ctx.fx.input)
            => /\ Holds(ctx, ctx.fx.input)
               /\ ctx.refreshPausedRef \/ Pending(ctx, "refresh", ctx.refreshTimerRef)

C6_Witness ==
  /\ act = "StorageTokens" /\ Applicable(ctx.fx.input)
  /\ ~ctx.fx.wasAuth /\ ctx.state.isAuthenticated
  /\ Pending(ctx, "refresh", ctx.refreshTimerRef)

\* C7: a message that carries the context's own id changes nothing of the
\* context and has no effect outside it.
C7_EchoIgnored ==
  [][act' = "StorageEcho" => (ctx' = [ctx EXCEPT !.fx = ctx'.fx] /\ Silent(ctx'.fx)
                               /\ ~ctx'.fx.removed /\ ctx'.fx.terminated = <<>>)]_vars

C7_Witness ==
  /\ act = "StorageEcho" /\ ctx.isAuthenticatedRef /\ ctx.timers /= {}

\* C8: a logout message of another context writes no broadcast and sends nothing
\* to the identity service; the session is cleared, by this step or by the
\* logout that was already in flight.
C8_RemoteLogoutLocalOnly ==
  act = "StorageLogout"
    => /\ Silent(ctx.fx) \/ (ctx.fx.nav = 1 /\ Silent([ctx.fx EXCEPT !.nav = 0]))
       /\ ctx.logoutReq /= Null \/ Cleared(ctx)
       /\ ctx.logoutReq /= Null => ctx.fx.wasLogout

C8_Witness ==
  /\ act = "StorageLogout" /\ ctx.fx.wasAuth /\ ~ctx.fx.wasLogout
  /\ Cleared(ctx) /\ ctx.fx.terminated = <<"remote-logout">>

\* C9: a logout message of another context causes no navigation when the
\* context that receives it is already Unauthenticated.
C9_NoRedirectWhenLoggedOut ==
  (act = "StorageLogout" /\ ~ctx.fx.wasAuth) => ctx.fx.nav = 0

\* C10: while a logout is in flight every further trigger sends nothing to the
\* identity service, writes no logout broadcast and does not navigate, and stays
\* suspended until the logout in flight has cleared the session; the options of
\* the logout in flight stay those of the first trigger, and they decide the
\* broadcast and the navigation when it finalizes.
C10_LogoutDeduplicated ==
  [][ctx.logoutReq /= Null =>
       IF act' = "LogoutResponse"
       THEN /\ ctx'.fx.nav = (IF ctx.logoutReq.opts.redirect THEN 1 ELSE 0)
            /\ ctx'.fx.bcLogout = (IF ctx.logoutReq.opts.broadcast THEN 1 ELSE 0)
            /\ ctx'.fx.terminated = <<ctx.logoutReq.opts.reason>>
            /\ ctx'.fx.netLogout = 0
            /\ Cleared(ctx') /\ ~ctx'.logoutJoined
       ELSE /\ ctx'.logoutReq = ctx.logoutReq
            /\ ctx.logoutJoined => ctx'.logoutJoined
            /\ ctx'.fx.netLogout = 0 /\ ctx'.fx.bcLogout = 0 /\ ctx'.fx.nav = 0
            /\ ctx'.fx.terminated = <<>>]_vars

\* C10 witness: a manual logout arrived while a logout without redirect was in
\* flight, and joined it.
C10_Witness ==
  /\ act = "Logout" /\ ctx.fx.wasLogout /\ ctx.logoutJoined
  /\ ctx.logoutReq /= Null /\ ~ctx.logoutReq.opts.redirect


\* C11: in the state after a step in which a logout finalized, no credential,
\* latest pair or record is left, the state is Unauthenticated with null
\* profile and token, the warning is hidden, refresh is not paused and no timer
\* of the four kinds is armed.
C11_LogoutClearsEverything ==
  ctx.fx.terminated /= <<>>
    => /\ Cleared(ctx)
       /\ ctx.tokenTypeRef = "Bearer"
       /\ ~ctx.showInactivityWarning
       /\ ~ctx.refreshPausedRef

\* C11 witness: the inactivity logout finalized in a context that was
\* Authenticated, with the answer of the identity service.
C11_Witness ==
  /\ act = "LogoutResponse" /\ ctx.fx.wasAuth
  /\ ctx.fx.terminated = <<"inactivity-timeout">>
  /\ Cleared(ctx)


\* The instants of the warning and of the forced logout for the last recorded
\* activity of the context.
WarningAt(c) == c.lastActivityRef + INACTIVITY_LIMIT_MS - INACTIVITY_WARNING_MS
LogoutAt(c) == c.lastActivityRef + INACTIVITY_LIMIT_MS

\* C12: in an authenticated context with last recorded activity a, the warning
\* is raised at a + LIMIT - WARNING and not before, and the forced logout fires
\* at a + LIMIT: until they fire, the two timers are pending for exactly these
\* instants.  A recorded activity hides the warning and makes a = now.
C12_InactivityTimers ==
  /\ (ctx.isAuthenticatedRef /\ ctx.logoutReq = Null)
       => /\ Pending(ctx, "logout", ctx.inactivityLogoutTimerRef)
          /\ ctx.inactivityLogoutTimerRef.due = LogoutAt(ctx)
  /\ ctx.isAuthenticatedRef
       => /\ {tm \in ctx.timers : tm.kind = "logout"} \subseteq
               {[kind |-> "logout", due |-> LogoutAt(ctx)]}
          /\ {tm \in ctx.timers : tm.kind = "warning"} \subseteq
               {[kind |-> "warning", due |-> WarningAt(ctx)]}
          /\ now < WarningAt(ctx)
               => /\ Pending(ctx, "warning", ctx.inactivityWarningTimerRef)
                  /\ ~ctx.showInactivityWarning
          /\ (now >= WarningAt(ctx) /\ ~ctx.showInactivityWarning /\ ctx.logoutReq = Null)
               => Pending(ctx, "warning", ctx.inactivityWarningTimerRef)
  /\ act = "WarningTimer" => (now = WarningAt(ctx) /\ ctx.showInactivityWarning)
  /\ act = "LogoutTimer"
       => /\ now = LogoutAt(ctx)
          /\ \/ ctx.logoutReq /= Null
             \/ Terminated(ctx.fx, "inactivity-timeout")
  /\ (act \in {"UserEvent", "DialogClose"} /\ ctx.fx.wasAuth /\ ctx.isAuthenticatedRef)
       => (ctx.lastActivityRef = now /\ ~ctx.showInactivityWarning)

\* C12 witness: the forced logout fired, one warning window after the warning.
C12_Witness ==
  /\ act = "LogoutTimer" /\ ctx.fx.wasAuth /\ ~ctx.fx.wasLogout
  /\ now = T0 + INACTIVITY_LIMIT_MS
  /\ ctx.logoutReq /= Null /\ ctx.logoutReq.opts = InactivityLogout

\* C12 witness of the reset: an activity while the warning was showing.
C12_ResetWitness ==
  /\ act = "DialogClose" /\ ctx.isAuthenticatedRef
  /\ ctx.lastActivityRef = now /\ now > T0
  /\ Pending(ctx, "warning", ctx.inactivityWarningTimerRef)


\* C13: the deadline of the forced logout counts from the last user
\* interaction: a token renewal that succeeds and a token pair applied from
\* another tab leave the deadline of an authenticated context where it was.
C13_OnlyInteractionPostpones ==
  [][(act' \in {"RefreshOk", "StorageTokens"} /\ ctx.isAuthenticatedRef /\ ctx'.isAuthenticatedRef)
       => LogoutAt(ctx') = LogoutAt(ctx)]_vars


\* No refresh timer is pending.
NoRefreshTimer(c) == \A tm \in c.timers : tm.kind /= "refresh"

\* The page has stayed hidden for the pause threshold since a hide transition
\* that happened while authenticated, and no pause timer is left to fire.
HiddenLong(c) ==
  /\ c.hiddenSince /= Null
  /\ now >= c.hiddenSince.at + VISIBILITY_PAUSE_THRESHOLD_MS
  /\ \A tm \in c.timers : tm.kind = "pause" => tm.due > now

\* C14: once the page has stayed hidden for the threshold after a hide
\* transition that happened while authenticated, refresh is paused and no
\* refresh timer is pending; while refresh is paused, scheduling a pair records
\* it and arms no refresh timer.
C14_HiddenPausesRefresh ==
  /\ (HiddenLong(ctx) /\ ctx.isAuthenticatedRef)
       => (ctx.refreshPausedRef /\ NoRefreshTimer(ctx))
  /\ ctx.refreshPausedRef => NoRefreshTimer(ctx)
  /\ (ctx.refreshPausedRef /\ act \in {"StorageTokens", "RefreshOk"} /\ ctx.isAuthenticatedRef
        /\ Applicable(ctx.latestTokensRef))
       => ctx.latestTokensRef = ctx.sessionStorage


\* C15: when the page is shown while refresh is paused, the authenticated
\* context un-pauses and a renewal is pending again: a refresh timer is armed or
\* a forced refresh has been started (its request is in flight, or it has
\* failed and logged the context out).
C15_VisibleResumesRefresh ==
  [][(act' = "VisibilityChange" /\ visibility' = "visible"
        /\ ctx.refreshPausedRef /\ ctx.isAuthenticatedRef)
       => /\ ~ctx'.refreshPausedRef
          /\ \/ Pending(ctx', "refresh", ctx'.refreshTimerRef)
             \/ ctx'.refreshReqs /= {}
             \/ ctx'.fx.forceFailed]_vars


\* A forceRefresh call awaits the renewal in flight.
ForceWaiting(c) == \E i \in 1..Len(c.waiters) : c.waiters[i].kind = "force"

\* C16: the stay-logged-in action hides the warning, makes now the last
\* activity with both inactivity timers re-armed from it, and leaves a refresh
\* request to the identity service in flight behind a forced refresh; when the
\* request of a forced refresh fails, the forced refresh fails and a logout is
\* in flight or has cleared the session.
C16_StayLoggedInRefreshes ==
  [][/\ act' = "StayLoggedIn"
          => /\ ~ctx'.showInactivityWarning
             /\ ctx'.lastActivityRef = now'
             /\ Pending(ctx', "warning", ctx'.inactivityWarningTimerRef)
             /\ ctx'.inactivityWarningTimerRef.due = now' + INACTIVITY_LIMIT_MS - INACTIVITY_WARNING_MS
             /\ Pending(ctx', "logout", ctx'.inactivityLogoutTimerRef)
             /\ ctx'.inactivityLogoutTimerRef.due = now' + INACTIVITY_LIMIT_MS
             /\ ctx'.refreshReqs /= {}
             /\ ctx'.refreshInFlightRef /= Null
             /\ ForceWaiting(ctx')
             /\ ctx'.fx.netRefresh = (IF ctx.refreshReqs = {} THEN 1 ELSE 0)
     /\ (act' = "RefreshFail" /\ ForceWaiting(ctx))
          => /\ ctx'.fx.forceFailed
             /\ ctx'.logoutReq /= Null \/ Cleared(ctx')]_vars

\* C16 witness: the action sent the refresh request.
C16_Witness ==
  /\ act = "StayLoggedIn" /\ ctx.fx.netRefresh = 1
  /\ ~ctx.showInactivityWarning /\ ctx.lastActivityRef = now
  /\ \E r \in ctx.refreshReqs : r.rt = ctx.refreshTokenRef

\* C17: a call of scheduleRefresh while refreshing is not paused arms the
\* refresh timer with delay 0 when the time until expiry T is at most the
\* leeway, and otherwise with max(T - leeway + jitter, minimum delay), the
\* jitter within [-JITTER, +JITTER]; that delay is at least the minimum delay
\* and strictly less than T, so the timer of an unexpired token is due before
\* the token expires.
C17_RefreshDelay ==
  (act = "scheduleRefresh" /\ ~ctx.refreshPausedRef) =>
    LET T == ctx.fx.input.timeUntilExpiry
        jitter == ctx.fx.input.jitter
        delay == ctx.refreshTimerRef.due - now
    IN /\ Pending(ctx, "refresh", ctx.refreshTimerRef)
       /\ ctx.timers = {[kind |-> "refresh", due |-> now + delay]}
       /\ jitter >= 0 - REFRESH_JITTER_MS /\ jitter <= REFRESH_JITTER_MS
       /\ T <= REFRESH_LEEWAY_MS => delay = 0
       /\ T > REFRESH_LEEWAY_MS =>
            /\ delay = Max(T - REFRESH_LEEWAY_MS + jitter, REFRESH_MIN_DELAY_MS)
            /\ delay >= REFRESH_MIN_DELAY_MS
            /\ delay < T
       /\ T > 0 => ctx.refreshTimerRef.due < ctx.latestTokensRef.expiresAt

\* The minimum delay wins over a negative jitter just above the leeway.
C17_Witness ==
  /\ act = "scheduleRefresh" /\ ~ctx.refreshPausedRef
  /\ ctx.fx.input.timeUntilExpiry > REFRESH_LEEWAY_MS
  /\ ctx.fx.input.timeUntilExpiry - REFRESH_LEEWAY_MS + ctx.fx.input.jitter < REFRESH_MIN_DELAY_MS
  /\ ctx.refreshTimerRef.due = now + REFRESH_MIN_DELAY_MS

\* The pair given to applyTokens by the step: the pair of the message, or the
\* response of the identity service normalized at the instant of the step.
NewPair ==
  IF act = "StorageTokens" THEN ctx.fx.input ELSE normalizeTokens(ctx.fx.input)

\* C18: after a successful refresh, a successful login or the apply of a pair
\* of another context, everything the context holds comes from the new pair:
\* access token, refresh token, token type, latest pair, the persisted record,
\* the token and the profile of the UI; nothing of the pair held before is
\* left, not even a refreshExpiresAt that the new pair lacks.
C18_PairReplacedWholesale ==
  (act \in {"RefreshOk", "LoginOk", "StorageTokens"} /\ Applicable(NewPair)) =>
    /\ Holds(ctx, NewPair)
    /\ ctx.tokenTypeRef = (IF NewPair.tokenType = "" THEN "Bearer" ELSE NewPair.tokenType)
    /\ ctx.latestTokensRef.refreshExpiresAt = NewPair.refreshExpiresAt
    /\ ctx.sessionStorage.refreshExpiresAt = NewPair.refreshExpiresAt
    /\ ctx.sessionStorage.tokenType = NewPair.tokenType

\* A refresh whose response has no refresh expiry and the default token type
\* replaces a pair of another type that had a refresh expiry.
C18_Witness ==
  /\ act = "RefreshOk" /\ Applicable(NewPair)
  /\ ctx.fx.wasPair /= Null
  /\ ctx.fx.wasPair.tokenType = "DPoP"
  /\ ctx.fx.wasPair.refreshExpiresAt /= Absent
  /\ ctx.latestTokensRef.refreshExpiresAt = Absent
  /\ ctx.tokenTypeRef = "Bearer"
  /\ ctx.accessTokenRef /= ctx.fx.wasPair.accessToken

\* The four faces of a session: the access token held, the refresh token
\* held, the context Authenticated, the persisted record present.
SessionFaces(c) ==
  <<c.accessTokenRef /= Null, c.refreshTokenRef /= Null,
    c.isAuthenticatedRef /\ c.state.isAuthenticated, c.sessionStorage /= Null>>

AllOrNothing(c) ==
  SessionFaces(c) \in {<<TRUE, TRUE, TRUE, TRUE>>, <<FALSE, FALSE, FALSE, FALSE>>}

\* C19: once the restore effect has run, the access token is held iff the
\* refresh token is held iff the context is Authenticated iff the persisted
\* record exists.
C19_AllOrNothing == mounted => AllOrNothing(ctx)

\* C19 where it holds: in memory the session is whole or absent in every
\* state after the restore effect (both tokens, the Authenticated flag and
\* state, and a complete latest pair that everything held derives from); an
\* Authenticated context always has its persisted record; and in a build
\* with authentication configured a persisted record exists only while the
\* context is Authenticated.
C19_WholeOrAbsent ==
  mounted =>
    /\ ctx.isAuthenticatedRef = ctx.state.isAuthenticated
    /\ ctx.isAuthenticatedRef => (~IsIncomplete(ctx.latestTokensRef)
                                  /\ Holds(ctx, ctx.latestTokensRef))
    /\ ~ctx.isAuthenticatedRef => (/\ ctx.accessTokenRef = Null
                                   /\ ctx.refreshTokenRef = Null
                                   /\ ctx.latestTokensRef = Null
                                   /\ ctx.state.token = Null
                                   /\ ctx.state.profile = Null)
    /\ configured => AllOrNothing(ctx)

\* A configured context that was Authenticated has just ended its session.
C19_Witness ==
  /\ mounted /\ configured
  /\ act = "LogoutResponse" /\ ctx.fx.wasAuth /\ ctx.fx.wasPair /= Null
  /\ SessionFaces(ctx) = <<FALSE, FALSE, FALSE, FALSE>>

TimerKinds == {"refresh", "pause", "warning", "logout"}

PendingOf(c, kind) == {tm \in c.timers : tm.kind = kind}

\* The handle the context keeps for the timer of a kind.
TimerRef(c, kind) ==
  CASE kind = "refresh" -> c.refreshTimerRef
    [] kind = "pause" -> c.visibilityPauseTimerRef
    [] kind = "warning" -> c.inactivityWarningTimerRef
    [] kind = "logout" -> c.inactivityLogoutTimerRef

\* C20: in every reachable state at most one timer of each kind (refresh,
\* visibility pause, inactivity warning, inactivity logout) is armed and not
\* yet fired, and it is the one whose handle the context keeps.
C20_OneTimerPerKind ==
  \A kind \in TimerKinds :
    /\ Cardinality(PendingOf(ctx, kind)) <= 1
    /\ \A tm \in PendingOf(ctx, kind) :
         TimerRef(ctx, kind) /= Null /\ TimerRef(ctx, kind).due = tm.due

\* A pair of another context re-arms the refresh and inactivity timers of a
\* hidden context whose timers of all four kinds were armed at other instants.
C20_Witness ==
  /\ act = "StorageTokens" /\ ctx.fx.wasAuth /\ Applicable(ctx.fx.input)
  /\ now > T0
  /\ \A kind \in TimerKinds : Cardinality(PendingOf(ctx, kind)) = 1
  /\ ctx.inactivityLogoutTimerRef.due = now + INACTIVITY_LIMIT_MS
  /\ ctx.visibilityPauseTimerRef.due < now + VISIBILITY_PAUSE_THRESHOLD_MS

\* The context as constructed, before any effect has run, with this record
\* left in sessionStorage.
Pristine(record) == InitCtx(record, configured)

\* C21: every broadcast writes the message under the shared key and removes
\* it in the same step, so the key is absent in every state; the event of the
\* removal changes nothing in a receiver, which has handled the message once,
\* on the event of the write; a context that starts after a broadcast has
\* nothing of that message: its startup is the startup of a freshly
\* constructed context and it holds no pair of the sender.
C21_BroadcastTransient ==
  /\ [](/\ ctx.localStorage = Null
        /\ ctx.fx.bcRemovals = ctx.fx.bcTokens + ctx.fx.bcLogout)
  /\ [][/\ act' = "StorageRemoval"
              => /\ ctx' = [ctx EXCEPT !.fx = ctx'.fx]
                 /\ Silent(ctx'.fx) /\ ~ctx'.fx.removed /\ ctx'.fx.terminated = <<>>
        /\ (act = "PeerBroadcast" /\ act' = "Mount")
              => /\ \E j \in JitterChoices :
                      ctx' = Settle([restoreSession(Input(ResetFx(Pristine(ctx.sessionStorage)),
                                                          ctx.sessionStorage), j)
                                       EXCEPT !.refreshExecutorRef = "refreshTokens"])
                 /\ ctx'.fx.terminated = <<>> /\ ctx'.fx.nav = 0
                 /\ ctx'.accessTokenRef /= Null => ctx'.accessTokenRef.id /= PeerId]_vars

\* A login has broadcast its pair: written once, removed once, key absent.
C21_Witness ==
  /\ act = "LoginOk" /\ ctx.fx.bcTokens = 1 /\ ctx.fx.bcRemovals = 1
  /\ ctx.localStorage = Null

\* The step called performLogout for a reason of this context's own.
LocalTrigger(fx) ==
  \E i \in 1..Len(fx.triggered) : fx.triggered[i] /= "remote-logout"

\* C22: a logout triggered in this context (manual, inactivity timeout, log
\* out now, failed refresh, unauthorized response) sends the held refresh
\* token to the logout endpoint of the identity service and leaves the session
\* in place until the call is answered, or, with no refresh token held, ends
\* the session at once; the step that ends the session writes the logout
\* broadcast.  A trigger that finds a logout in flight joins it, and the
\* refresh token it holds is the one that logout has sent.
C22_LocalLogoutRevokesAndBroadcasts ==
  [][/\ act' \in {"Logout", "LogoutNow", "LogoutTimer"} => LocalTrigger(ctx'.fx)
     /\ (act' = "RefreshFail" /\ ForceWaiting(ctx)) => Terminated([terminated |-> ctx'.fx.triggered], "refresh-failed")
     /\ (LocalTrigger(ctx'.fx) /\ ctx.logoutReq /= Null)
          => /\ ctx'.logoutReq = ctx.logoutReq
             /\ ctx.logoutReq.opts.broadcast
             /\ ctx.refreshTokenRef /= Null => ctx.logoutReq.rt = ctx.refreshTokenRef
     /\ (LocalTrigger(ctx'.fx) /\ ctx.logoutReq = Null /\ ctx'.refreshTokenRef /= Null)
          => /\ ctx'.logoutReq /= Null
             /\ ctx'.logoutReq.rt = ctx'.refreshTokenRef
             /\ act' /= "Mount" => ctx'.refreshTokenRef = ctx.refreshTokenRef
             /\ ctx'.logoutReq.opts.broadcast
             /\ ctx'.fx.netLogout = 1
             /\ ctx'.fx.terminated = <<>> /\ ctx'.fx.bcLogout = 0
             /\ ctx'.isAuthenticatedRef /\ ctx'.accessTokenRef /= Null
             /\ ctx'.sessionStorage = ctx'.latestTokensRef
     /\ (LocalTrigger(ctx'.fx) /\ ctx.logoutReq = Null /\ ctx'.refreshTokenRef = Null)
          => /\ ctx.refreshTokenRef = Null
             /\ ctx'.fx.netLogout = 0 /\ ctx'.logoutReq = Null
             /\ ctx'.fx.terminated /= <<>>
             /\ ctx'.fx.bcLogout = Len(ctx'.fx.terminated)
             /\ Cleared(ctx')
     /\ act' = "LogoutResponse"
          => /\ ctx'.fx.terminated = <<ctx.logoutReq.opts.reason>>
             /\ ctx'.fx.bcLogout = 1
             /\ Cleared(ctx')]_vars

\* C23: whenever the call of the logout endpoint terminates, answered 2xx,
\* 401 or another status, or failed in the network, the session is cleared,
\* the logout broadcast is written when the logout asked for it, and
\* logoutInFlightRef is released with nothing left suspended on it.
C23_FailedCallDoesNotBlock ==
  [][act' = "LogoutResponse"
       => /\ Cleared(ctx')
          /\ ctx'.fx.terminated = <<ctx.logoutReq.opts.reason>>
          /\ ctx'.fx.bcLogout = (IF ctx.logoutReq.opts.broadcast THEN 1 ELSE 0)
          /\ ctx'.fx.nav = (IF ctx.logoutReq.opts.redirect THEN 1 ELSE 0)
          /\ ctx'.logoutReq = Null
          /\ ~ctx'.logoutInFlightRef /\ ~ctx'.logoutJoined
          /\ ~ctx'.fx.threw]_vars

\* The call failed in the network, or was answered with an error, while the
\* session was still in place.
C23_Witness ==
  /\ act = "LogoutResponse" /\ ctx.fx.input \in {"neterr", "error"}
  /\ ctx.fx.wasAuth /\ ctx.fx.wasLogout
  /\ Cleared(ctx) /\ ctx.fx.bcLogout = 1 /\ ~ctx.logoutInFlightRef

\* What a failed login must leave alone: credentials, persisted record,
\* timers and their handles, the Authenticated flag and state, the profile.
SessionPart(c) ==
  [accessTokenRef |-> c.accessTokenRef, refreshTokenRef |-> c.refreshTokenRef,
   tokenTypeRef |-> c.tokenTypeRef, latestTokensRef |-> c.latestTokensRef,
   sessionStorage |-> c.sessionStorage,
   timers |-> c.timers, refreshTimerRef |-> c.refreshTimerRef,
   visibilityPauseTimerRef |-> c.visibilityPauseTimerRef,
   inactivityWarningTimerRef |-> c.inactivityWarningTimerRef,
   inactivityLogoutTimerRef |-> c.inactivityLogoutTimerRef,
   isAuthenticatedRef |-> c.isAuthenticatedRef,
   isAuthenticated |-> c.state.isAuthenticated,
   profile |-> c.state.profile, token |-> c.state.token]

\* The step is the end of a login that failed: an answer other than 2xx, a
\* failure of the network, or a 2xx answer whose access token cannot be decoded.
LoginFailed(a, fx) == a = "LoginFail" \/ (a = "LoginOk" /\ fx.threw)

\* C24: a failed login rejects to its caller and leaves credentials, record,
\* timers and the Authenticated flag as they were; the call sets isLoading,
\* and nothing else, and the answer resets it; nothing is broadcast.
C24_FailedLoginLeavesNoTrace ==
  [][/\ act' = "Login"
          => /\ SessionPart(ctx') = SessionPart(ctx)
             /\ ctx'.fx.bcTokens = 0 /\ ctx'.fx.bcLogout = 0
             /\ ctx'.fx.threw = ~configured
             /\ ctx'.state.isLoading = (IF configured THEN TRUE ELSE ctx.state.isLoading)
     /\ LoginFailed(act', ctx'.fx)
          => /\ ctx'.fx.threw
             /\ SessionPart(ctx') = SessionPart(ctx)
             /\ ~ctx'.state.isLoading
             /\ ctx'.fx.bcTokens = 0 /\ ctx'.fx.bcLogout = 0 /\ ctx'.fx.nav = 0]_vars

\* The step gave applyTokens a pair whose access token cannot be decoded: the
\* persisted record at startup, the response of a refresh, or the pair of a
\* message of another context.
MalformedFrom(a) ==
  /\ act = a
  /\ ctx.fx.input /= Null /\ ctx.fx.input /= Garbage
  /\ ctx.fx.input.accessToken /= Null
  /\ ~ctx.fx.input.accessToken.ok

\* The session is over, or a logout that will end it is in flight.
LoggedOutOrLeaving(c) ==
  \/ c.logoutReq /= Null
  \/ (~c.isAuthenticatedRef /\ ~c.state.isAuthenticated /\ c.sessionStorage = Null)

\* C25: a pair whose access token cannot be decoded is fatal wherever it
\* comes from: after the step that tried to apply it the context is
\* Unauthenticated with no persisted record, or the logout that makes it so
\* is in flight.
C25_MalformedTokenFatal ==
  (\/ MalformedFrom("Mount") /\ configured /\ ~IsIncomplete(ctx.fx.input)
   \/ MalformedFrom("RefreshOk")
   \/ MalformedFrom("StorageTokens"))
    => LoggedOutOrLeaving(ctx)

\* The credential of the pair the context holds: its token type (Bearer when
\* it has none) and its access token; Null when no access token is held.
Credential(c) ==
  IF c.accessTokenRef = Null THEN Null
  ELSE [type |-> IF c.latestTokensRef.tokenType = "" THEN "Bearer"
                 ELSE c.latestTokensRef.tokenType,
        token |-> c.latestTokensRef.accessToken]

\* The step sent the request of apiFetch: for the first time, or again after
\* a refresh.
IssuedApiRequest(c, d) ==
  /\ d.apiReq /= Null /\ d.apiReq.awaiting = "fetch"
  /\ c.apiReq = Null \/ c.apiReq.awaiting = "refresh"

\* C26: the token getter returns the token type and the access token of the
\* held pair exactly when an access token is held, and null otherwise; a
\* request without skipAuth carries that credential, or none, as held when it
\* is sent or sent again; once a logout has finalized the getter returns null
\* and a request sent by that step carries no credential.
C26_AuthorizationIffTokenHeld ==
  [][/\ getAccessToken(ctx') = Credential(ctx')
     /\ (getAccessToken(ctx') = Null) = (ctx'.accessTokenRef = Null)
     /\ IssuedApiRequest(ctx, ctx') => ctx'.apiReq.auth = Credential(ctx')
     /\ ctx'.fx.terminated /= <<>>
          => /\ getAccessToken(ctx') = Null
             /\ IssuedApiRequest(ctx, ctx') => ctx'.apiReq.auth = Null
     /\ (~ctx'.isAuthenticatedRef /\ act' = "ApiRequest") => ctx'.apiReq.auth = Null]_vars

\* A request is sent again after a refresh, with the credential of the new
\* pair in place of the one of a pair of another token type.
C26_Witness ==
  /\ act = "RefreshOk" /\ ctx.apiReq /= Null /\ ctx.apiReq.awaiting = "fetch"
  /\ ctx.apiReq.attempt = 1
  /\ ctx.fx.wasPair /= Null /\ ctx.fx.wasPair.tokenType = "DPoP"
  /\ ctx.apiReq.auth = [type |-> "Bearer", token |-> ctx.accessTokenRef]

\* The claims of a token that are set, in the order given.
SetClaims(claims, names) ==
  SelectSeq([k \in 1..Len(names) |-> claims[names[k]]], LAMBDA v : v /= Null)

\* C27: the username of a decoded profile is the first claim that is set
\* among preferred_username, email, name and sub, and null when none is;
\* email, firstName and lastName are the claims email, given_name and
\* family_name, or null; two tokens with the same claims decode alike.
C27_ProfileFromClaims ==
  (act = "decodeProfile" /\ ctx.token.ok) =>
    LET claims == ctx.token.claims
        named == SetClaims(claims, <<"preferred_username", "email", "name", "sub">>)
    IN /\ ctx.profile /= Null
       /\ ctx.profile.username = (IF named = <<>> THEN Null ELSE Head(named))
       /\ ctx.profile.email = claims.email
       /\ ctx.profile.firstName = claims.given_name
       /\ ctx.profile.lastName = claims.family_name
       /\ \A i \in {0, 1} : decodeProfile(Jwt(i, TRUE, claims)) = ctx.profile

\* A token with an e-mail address and a name but no preferred_username:
\* the username is the e-mail address.
C27_Witness ==
  /\ act = "decodeProfile" /\ ctx.token.ok
  /\ ctx.token.claims.preferred_username = Null
  /\ ctx.token.claims.email = Claim("mail") /\ ctx.token.claims.name = Claim("display")
  /\ ctx.profile.username = Claim("mail")

\* C28: a response received at time t becomes a pair with expiresAt =
\* t + expiresIn * 1000 and, whenever the response carries refreshExpiresIn,
\* refreshExpiresAt = t + refreshExpiresIn * 1000; refreshExpiresAt is absent
\* only when refreshExpiresIn is; a blank tokenType becomes Bearer.
C28_AbsoluteInstants ==
  act = "normalizeTokens" =>
    /\ ctx.tokens.expiresAt = now + ctx.response.expiresIn * 1000
    /\ ctx.response.refreshExpiresIn /= Absent
         => ctx.tokens.refreshExpiresAt = now + ctx.response.refreshExpiresIn * 1000
    /\ ctx.tokens.refreshExpiresAt = Absent => ctx.response.refreshExpiresIn = Absent
    /\ ctx.response.tokenType \in {"", " "} => ctx.tokens.tokenType = "Bearer"
    /\ ctx.tokens.accessToken = ctx.response.accessToken
    /\ ctx.tokens.refreshToken = ctx.response.refreshToken

\* What a renewal in progress must leave alone: the Authenticated flag and
\* state, the profile, the tokens held, the persisted record, and the
\* credential served to the HTTP client.
RenewalFrame(c) ==
  [isAuthenticatedRef |-> c.isAuthenticatedRef,
   isAuthenticated |-> c.state.isAuthenticated,
   profile |-> c.state.profile, token |-> c.state.token,
   accessTokenRef |-> c.accessTokenRef, refreshTokenRef |-> c.refreshTokenRef,
   tokenTypeRef |-> c.tokenTypeRef, latestTokensRef |-> c.latestTokensRef,
   sessionStorage |-> c.sessionStorage,
   served |-> getAccessToken(c)]

\* C29: the step that sends a renewal request leaves the context
\* Authenticated, with the same profile, tokens, record and credential for
\* the HTTP client; while the request is outstanding they stay so through
\* every step that neither applies a pair (the response, a login, a message of
\* another context) nor finalizes a logout.
C29_RenewalKeepsSession ==
  [][/\ ctx'.fx.netRefresh > 0
          => /\ RenewalFrame(ctx') = RenewalFrame(ctx)
             /\ ctx'.isAuthenticatedRef /\ ctx'.state.isAuthenticated
             /\ ctx'.state.profile /= Null
             /\ getAccessToken(ctx') /= Null
             /\ getAccessToken(ctx').token = ctx.accessTokenRef
     /\ (/\ ctx.refreshReqs /= {} /\ ctx'.refreshReqs = ctx.refreshReqs
         /\ ctx'.fx.terminated = <<>>
         /\ act' \notin {"StorageTokens", "LoginOk"})
          => RenewalFrame(ctx') = RenewalFrame(ctx)
     /\ (act' = "RefreshFail" /\ ctx'.fx.terminated = <<>>)
          => RenewalFrame(ctx') = RenewalFrame(ctx)]_vars

\* The refresh timer has sent a renewal request in an Authenticated context,
\* which still serves the access token it held.
C29_Witness ==
  /\ act = "RefreshTimer" /\ ctx.fx.netRefresh = 1
  /\ ctx.refreshReqs /= {}
  /\ ctx.state.isAuthenticated /\ ctx.state.token = ctx.accessTokenRef
  /\ getAccessToken(ctx) /= Null

\* C30: once a logout has finalized, the context stays Unauthenticated, with
\* no credentials, no new persisted record, no timers and no tokens
\* broadcast, through every step but a successful login and a tokens message
\* of another context: the answer to a refresh request sent before the logout
\* restores nothing.
C30_NoResurrection ==
  [][(mounted /\ ~ctx.isAuthenticatedRef /\ act' \notin {"LoginOk", "StorageTokens"})
       => /\ ~ctx'.isAuthenticatedRef /\ ~ctx'.state.isAuthenticated
          /\ ctx'.accessTokenRef = Null /\ ctx'.refreshTokenRef = Null
          /\ ctx'.latestTokensRef = Null
          /\ ctx'.sessionStorage \in {ctx.sessionStorage, Null}
          /\ ctx'.timers = {}
          /\ ctx'.fx.bcTokens = 0]_vars

\* C31: renewal is never silently dropped: in every reachable state in which
\* the context is Authenticated, refresh is not paused and no logout is in
\* flight, a refresh timer is armed and not yet fired or a refresh request is
\* in flight.
C31_RenewalNeverDropped ==
  (mounted /\ ctx.isAuthenticatedRef /\ ~ctx.refreshPausedRef /\ ~ctx.logoutInFlightRef)
    => \/ Pending(ctx, "refresh", ctx.refreshTimerRef)
       \/ ctx.refreshReqs /= {}

\* The calls of the unauthorized handler made by the step.
Unauthorizeds(fx) ==
  Cardinality({i \in 1..Len(fx.triggered) : fx.triggered[i] = "unauthorized"})

\* The calls of the refresh handler by apiFetch that await their result.
ApiWaiters(c) == Cardinality({i \in 1..Len(c.waiters) : c.waiters[i].kind = "api"})

\* C32: a request without skipAuth makes at most two fetches and at most one
\* call of the refresh handler.  The first 401 calls the refresh handler
\* once; the request is sent again, once, only after that call has returned
\* true, and then with the credential the refresh has just installed; when
\* the refresh fails, or the second answer is a 401 again, the unauthorized
\* handler is called exactly once and the 401 is returned.  Every other
\* answer is returned at once without the unauthorized handler, and the
\* answer to the request sent again is returned whatever it is.
C32_AtMostOneRetry ==
  [][/\ ctx'.apiReq /= Null
          => /\ ctx'.apiReq.attempt \in {0, 1}
             /\ ctx'.apiReq.fetches \in {1, 2}
             /\ ctx'.apiReq.awaiting = "refresh"
                  => (ctx'.apiReq.attempt = 1 /\ ctx'.apiReq.fetches = 1 /\ ApiWaiters(ctx') = 1)
             /\ ctx'.apiReq.awaiting = "fetch"
                  => (ctx'.apiReq.fetches = ctx'.apiReq.attempt + 1 /\ ApiWaiters(ctx') = 0)
     /\ act' = "ApiRequest"
          => /\ ctx'.apiReq /= Null /\ ctx'.apiReq.fetches = 1 /\ ctx'.apiReq.attempt = 0
             /\ ctx'.fx.apiReturn = Null /\ Unauthorizeds(ctx'.fx) = 0
     /\ (act' = "ApiResponse" /\ ctx'.apiReq /= Null)
          => /\ ctx.apiReq.attempt = 0
             /\ ctx'.apiReq = [ctx.apiReq EXCEPT !.attempt = 1, !.awaiting = "refresh"]
             /\ ctx'.fx.apiReturn = Null /\ Unauthorizeds(ctx'.fx) = 0
             /\ ctx'.fx.netRefresh <= 1
     /\ (act' = "ApiResponse" /\ ctx.apiReq.attempt = 1) => ctx'.apiReq = Null
     /\ (ctx.apiReq /= Null /\ ctx.apiReq.awaiting = "refresh" /\ ctx'.apiReq /= ctx.apiReq)
          => \/ /\ act' = "RefreshOk"
                /\ ctx'.apiReq /= Null
                /\ ctx'.apiReq.awaiting = "fetch" /\ ctx'.apiReq.fetches = 2
                /\ ctx'.apiReq.auth /= Null
                /\ ctx'.apiReq.auth.token = ctx'.fx.input.accessToken
                /\ ctx'.apiReq.auth = Credential(ctx')
                /\ ctx'.fx.apiReturn = Null /\ Unauthorizeds(ctx'.fx) = 0
             \/ /\ ctx'.apiReq = Null
                /\ ctx'.fx.apiReturn = [outcome |-> "401", fetches |-> 1, attempt |-> 1]
                /\ Unauthorizeds(ctx'.fx) = 1
     /\ ctx'.fx.apiReturn /= Null
          => /\ ctx.apiReq /= Null /\ ctx'.apiReq = Null
             /\ ctx'.fx.apiReturn.fetches <= 2 /\ ctx'.fx.apiReturn.attempt <= 1
             /\ ctx'.fx.apiReturn.outcome = "401"
                  => (Unauthorizeds(ctx'.fx) = 1 /\ ctx'.fx.apiReturn.attempt = 1)
             /\ ctx'.fx.apiReturn.outcome /= "401" => Unauthorizeds(ctx'.fx) = 0
     /\ ctx'.fx.apiReturn = Null
          => /\ Unauthorizeds(ctx'.fx) = 0
             /\ ctx.apiReq /= Null => ctx'.apiReq /= Null]_vars

\* The request sent again after a successful refresh was answered 401 again:
\* two fetches, one call of the refresh handler, one of the unauthorized
\* handler.
C32_Witness ==
  /\ act = "ApiResponse"
  /\ ctx.fx.apiReturn = [outcome |-> "401", fetches |-> 2, attempt |-> 1]
  /\ Unauthorizeds(ctx.fx) = 1
  /\ ctx.apiReq = Null

\* The calls to the identity service, which apiFetch makes with skipAuth.
SkipAuthCalls == {"login", "refresh", "logout"}

\* The step is the answer to a call made with skipAuth.
SkipAuthAnswer(a) == a \in {"LoginOk", "LoginFail", "RefreshOk", "RefreshFail", "LogoutResponse"}

\* The request without skipAuth that awaited a refresh has returned.
ApiReturnedAfterRefresh(c, d) ==
  c.apiReq /= Null /\ c.apiReq.awaiting = "refresh" /\ d.apiReq = Null

\* C33: the login, refresh and logout calls carry no Authorization header,
\* whatever credential the context holds; the answer to one of them, a 401
\* included, sends no refresh request and calls neither the refresh handler
\* nor the unauthorized handler for that call: a call of the unauthorized
\* handler in such a step is the one of the request without skipAuth that
\* awaited the refresh, and a logout started by a failed refresh is the one
\* of the forced refresh, with reason refresh-failed.
C33_SkipAuthNeverRecurses ==
  [][/\ \A i \in 1..Len(ctx'.fx.sent) :
          ctx'.fx.sent[i].call \in SkipAuthCalls => ctx'.fx.sent[i].auth = Null
     /\ Len(ctx'.fx.sent) = ctx'.fx.fetch
     /\ ctx'.fx.netLogin + ctx'.fx.netRefresh + ctx'.fx.netLogout =
          Cardinality({i \in 1..Len(ctx'.fx.sent) : ctx'.fx.sent[i].call \in SkipAuthCalls})
     /\ SkipAuthAnswer(act')
          => /\ ctx'.fx.netRefresh = 0
             /\ ApiWaiters(ctx') <= ApiWaiters(ctx)
             /\ Len(ctx'.waiters) <= Len(ctx.waiters)
             /\ Unauthorizeds(ctx'.fx) = (IF ApiReturnedAfterRefresh(ctx, ctx') THEN 1 ELSE 0)
             /\ \A i \in 1..Len(ctx'.fx.triggered) :
                  ctx'.fx.triggered[i] \in {"refresh-failed", "unauthorized"}
             /\ act' \in {"LoginOk", "LoginFail", "LogoutResponse"}
                  => ctx'.fx.triggered = <<>>
             /\ (act' = "RefreshFail" /\ ~ForceWaiting(ctx)) =>
                  (ctx'.fx.netLogout > 0 => ApiReturnedAfterRefresh(ctx, ctx'))]_vars

\* A refresh request sent by an Authenticated context that serves a
\* credential carries none, and it is answered 401 with no call of the
\* unauthorized handler: the logout that follows is the one of the forced
\* refresh.
C33_Witness ==
  /\ act = "RefreshFail" /\ ctx.fx.input = "401"
  /\ ctx.fx.wasAuth /\ ctx.fx.wasPair /= Null
  /\ Unauthorizeds(ctx.fx) = 0
  /\ ctx.fx.triggered = <<"refresh-failed">>
  /\ ctx.logoutReq /= Null

\* The refresh request is sent without a credential while one is served.
C33_SentWitness ==
  /\ act = "RefreshTimer" /\ getAccessToken(ctx) /= Null
  /\ ctx.fx.sent = <<[call |-> "refresh", auth |-> Null]>>

\* The state of the session manager, without the observations of the last
\* step, the pending request of the application and the observed hide instant.
SessionState(c) ==
  [c EXCEPT !.fx = NoFx, !.apiReq = [null |-> TRUE], !.hiddenSince = [null |-> TRUE]]

\* The step is a user-activity event: a click or a keydown, a visibility
\* change, or the ok answer to a request of the application.
ActivityEvent(a, fx) ==
  \/ a \in {"UserEvent", "VisibilityChange"}
  \/ a = "ApiResponse" /\ fx.apiReturn /= Null /\ fx.apiReturn.outcome = "ok"

\* C34: while the context is Unauthenticated no refresh, visibility-pause,
\* inactivity-warning or inactivity-logout timer is armed and the inactivity
\* warning is not shown; a click, a keydown, a visibility change or a
\* successful request in an Unauthenticated context changes nothing of the
\* session state, sends nothing and arms nothing.
C34_GatedByAuthentication ==
  /\ [](~ctx.isAuthenticatedRef
          => /\ ctx.timers = {}
             /\ ~ctx.showInactivityWarning
             /\ ~ctx.state.isAuthenticated)
  /\ [][(~ctx.isAuthenticatedRef /\ ActivityEvent(act', ctx'.fx))
          => /\ SessionState(ctx') = SessionState(ctx)
             /\ ctx'.fx.fetch = 0 /\ ctx'.fx.triggered = <<>>
             /\ ctx'.fx.bcTokens = 0 /\ ctx'.fx.bcLogout = 0 /\ ctx'.fx.nav = 0]_vars

\* A click in a context that had been Authenticated and has logged out, at
\* a later instant than its last recorded activity.
C34_Witness ==
  /\ act = "UserEvent" /\ ~ctx.fx.wasAuth /\ ~ctx.isAuthenticatedRef
  /\ ctx.lastActivityRef < now
  /\ ctx.timers = {}

\* The pairs that reach applyTokens at this instant and that it rejects: a
\* complete record of the session store, the pair of a message of another
\* context or the pair of a response, with an access token that cannot be
\* decoded or a refresh expiry that has passed.
RejectedPairs ==
  {t \in {r \in InitRecords : r /= Null /\ r /= Garbage /\ ~IsIncomplete(r)}
         \cup PeerTokens
         \cup {normalizeTokens(r) : r \in AuthApiResponses(MaxIssued)} :
     ~Applicable(t)}

C35_ExpiredWitness ==
  /\ act = "StorageTokens" /\ ctx.fx.input.accessToken.ok
  /\ ctx.fx.input.refreshExpiresAt /= Absent /\ ctx.fx.input.refreshExpiresAt <= now
  /\ ctx.fx.wasAuth /\ Holds(ctx, ctx.fx.wasPair)

\* The step called performLogout with this reason.
Triggered(fx, reason) == \E i \in 1..Len(fx.triggered) : fx.triggered[i] = reason

\* C36: the forced logout for inactivity fires only after the warning has
\* been raised since the last recorded activity, one warning window before
\* it; a logout with reason inactivity-timeout is started by the logout timer
\* and by nothing else; the warning is shown only in an Authenticated context.
C36_WarningBeforeLogout ==
  /\ [](ctx.showInactivityWarning => (ctx.isAuthenticatedRef /\ ctx.warningRaised))
  /\ [][/\ act' = "LogoutTimer"
             => /\ ctx.warningRaised
                /\ ctx.isAuthenticatedRef
                /\ PendingOf(ctx, "warning") = {}
                /\ now' = WarningAt(ctx) + INACTIVITY_WARNING_MS
                /\ Triggered(ctx'.fx, "inactivity-timeout")
        /\ Triggered(ctx'.fx, "inactivity-timeout") => act' = "LogoutTimer"
        /\ act' = "WarningTimer"
             => /\ ~ctx.warningRaised /\ ctx'.warningRaised /\ ctx'.showInactivityWarning
                /\ ctx'.isAuthenticatedRef
                /\ now' = WarningAt(ctx')
                /\ Pending(ctx', "logout", ctx'.inactivityLogoutTimerRef)
        /\ (ctx.warningRaised /\ ~ctx'.warningRaised)
             => (ctx'.lastActivityRef = now' \/ ~ctx'.isAuthenticatedRef)]_vars

\* The logout timer has fired in a context that shows the warning raised one
\* window earlier, and the inactivity logout is in flight.
C36_Witness ==
  /\ act = "LogoutTimer" /\ ctx.warningRaised /\ ctx.showInactivityWarning
  /\ ctx.fx.triggered = <<"inactivity-timeout">>
  /\ now = LogoutAt(ctx)
  /\ ctx.logoutReq /= Null /\ ctx.logoutReq.opts = InactivityLogout

\* C37: renewal driven by the refresh timer cannot spin: a refresh request
\* sent by the refresh timer follows the previous one sent by the refresh
\* timer of the same context by at least the minimum delay, whatever
\* lifetime the identity service gives the pairs.
C37_NoRefreshSpin ==
  [][(act' = "RefreshTimer" /\ ctx'.fx.netRefresh > 0 /\ ctx.lastTimerRefresh /= Null)
       => now' - ctx.lastTimerRefresh.at >= REFRESH_MIN_DELAY_MS]_vars

\* C38: the manager is ready once the restore effect has run, on every
\* startup path: authentication not configured, no persisted record, a record
\* that is restored, a record that is discarded; before that it is ready
\* exactly when authentication is not configured; and isReady never goes
\* back to false, whatever the step: login, refresh, logout, message of
\* another context, timer.
C38_ReadyAndMonotonic ==
  /\ [](IF mounted THEN ctx.state.isReady ELSE ctx.state.isReady = ~configured)
  /\ [][/\ ctx.state.isReady => ctx'.state.isReady
        /\ act' = "Mount"
             => /\ ctx'.state.isReady
                /\ ~configured => (ctx'.sessionStorage = ctx.sessionStorage
                                    /\ ~ctx'.state.isAuthenticated)
                /\ (configured /\ ctx.sessionStorage = Null) => ~ctx'.state.isAuthenticated
                /\ (configured /\ Restorable(ctx.sessionStorage))
                     => (ctx'.state.isAuthenticated \/ ctx'.fx.terminated /= <<>>)
                /\ (configured /\ ctx.sessionStorage /= Null /\ ~Restorable(ctx.sessionStorage))
                     => (~ctx'.state.isAuthenticated /\ ctx'.sessionStorage = Null)]_vars

\* A configured build has started with a record it discards, and is ready.
C38_Witness ==
  /\ act = "Mount" /\ configured /\ ctx.fx.input /= Null /\ ~Restorable(ctx.fx.input)
  /\ ctx.fx.removed
  /\ ctx.state.isReady /\ ~ctx.state.isAuthenticated

\* A logout has finalized in a context that became ready by restoring its
\* record, and the context is still ready.
C38_StillReadyWitness ==
  /\ act = "LogoutResponse" /\ configured /\ ctx.fx.wasAuth
  /\ ctx.fx.terminated /= <<>> /\ ctx.state.isReady

====
